---- MODULE Spec2Model ----
(***************************************************************************)
(* Model of the tamper-triage pipeline of src/15_edge_anomaly.py:          *)
(* the output bundle resolver (_pick_array, load_trufor_outputs), the OCR  *)
(* region extractor (ocr_line_boxes), the ROI scorer (roi_anomaly_score),  *)
(* the decision and export steps (analyze_image, save_crop) and the batch  *)
(* loop (main).                                                            *)
(*                                                                         *)
(* Numbers.  Floats are modelled by exact rationals.  A raw array value v  *)
(* stands for v / One; a normalised map carries one denominator `den` for  *)
(* all its pixels; a score is a fraction [n, d].  float32 rounding is not  *)
(* modelled.                                                               *)
(***************************************************************************)
EXTENDS Integers, Sequences, FiniteSets, TLC

VARIABLES
    \* ---- the batch run (main) ----
    df,         \* the input table: a sequence of table rows [task_id, cells]
    args,       \* the parsed command line (thresholds, OCR limits)
    pos,        \* the loop position: <<table row, path column>>
    rows,       \* the report rows appended so far
    out_csv,    \* the written report (<<>> until to_csv)
    out_dir,    \* the .npz files of the model output directory
    clock,      \* the modification-time source of out_dir
    crops_dir,  \* the evidence crops written so far
    calls,      \* the model subprocess invocations made so far
    trace,      \* per report row: how far the image got, what the model
                \* run did, which file was resolved and which run wrote it
    trufor,     \* the TruFor checkout: [script, naming]
    pc,         \* "loop" while main iterates, "saved" after to_csv
    \* ---- one call of load_trufor_outputs ----
    npz,        \* the bundle: a sequence of entries [key, arr] in key order
    img_shape,  \* <<H, W>>
    outs,       \* the result of the call
    rpc,        \* "start" before the call, "done" after it
    \* ---- one call of ocr_line_boxes ----
    ocr_call,   \* [tokens, min_conf, min_size]: what image_to_data read,
                \* and the limits
    ocr_ret,    \* the boxes returned (None before the call)
    \* ---- one call of roi_anomaly_score ----
    roi_call,   \* [loc, rel, roi, rel_min]: the resolved maps, a box, relMin
    roi_ret,    \* the score returned (None before the call)
    \* ---- one call of clamp_box or of save_crop ----
    box_call,   \* [x, y, w, h, W, H, pad]
    box_ret,    \* [fn, box]: the function called and the box it computed
                \* (None before the call)
    \* ---- one evaluation of the decision rule of analyze_image ----
    dec_call,   \* [g, g2, max_roi, global_thresh, roi_thresh]
    dec_ret,    \* [at_g, at_g2]: the status at either global score
    \* ---- norm01 applied once, then again to its own output ----
    norm_call,  \* the raw map [shape, data]
    norm_ret,   \* [once, twice]: the normalised maps
    \* ---- the region scoring loop of analyze_image ----
    best_call,  \* [loc, rel, rois, rel_min]
    best_ret,   \* [max_roi, best_roi] after the loop
    \* ---- two workers running analyze_image on one output directory ----
    par_dir,    \* the .npz files of the shared output directory
    par_clock,  \* its modification-time source
    workers,    \* per worker: [image, run, pc, npz_path, result]
    \* ---- the HTTP clients ----
    hive,       \* one call of submit_to_hive_sync
    sight,      \* one call of detect_ai_generated
    retry       \* one call of with_retry

vars == <<df, args, pos, rows, out_csv, out_dir, clock, crops_dir, calls,
          trace, trufor, pc, npz, img_shape, outs, rpc, ocr_call, ocr_ret,
          roi_call, roi_ret, box_call, box_ret, dec_call, dec_ret,
          norm_call, norm_ret, best_call, best_ret, par_dir, par_clock,
          workers, hive, sight, retry>>

batchVars == <<df, args, pos, rows, out_csv, out_dir, clock, crops_dir,
               calls, trace, trufor, pc>>

resolverVars == <<npz, img_shape, outs, rpc>>

ocrVars == <<ocr_call, ocr_ret>>

roiVars == <<roi_call, roi_ret>>

boxVars == <<box_call, box_ret>>

decideVars == <<dec_call, dec_ret>>

normVars == <<norm_call, norm_ret>>

bestVars == <<best_call, best_ret>>

parVars == <<par_dir, par_clock, workers>>

clientVars == <<hive, sight, retry>>

restVars == <<decideVars, normVars, bestVars, parVars, clientVars>>

(***************************************************************************)
(* Bounds of the model.                                                    *)
(***************************************************************************)
MaxDim == 2       \* image height and width range over 1..MaxDim
MaxChan == 2      \* channel counts of 3-D entries range over 1..MaxChan
MaxImages == 2    \* at most this many image paths in the input table

\* The fixed-point unit: the integer that stands for the float 1.0.
One == 10

(***************************************************************************)
(* Arithmetic helpers.                                                     *)
(***************************************************************************)
Max2(a, b) == IF a >= b THEN a ELSE b

Min2(a, b) == IF a <= b THEN a ELSE b

\* np.clip(v, lo, hi)
Clip(v, lo, hi) == Max2(lo, Min2(v, hi))

RECURSIVE Prod(_)
Prod(s) == IF s = <<>> THEN 1 ELSE Head(s) * Prod(Tail(s))

RECURSIVE SumSeq(_)
SumSeq(s) == IF s = <<>> THEN 0 ELSE Head(s) + SumSeq(Tail(s))

RECURSIVE InsertInt(_, _)
InsertInt(sorted, v) ==
    IF sorted = <<>> THEN <<v>>
    ELSE IF Head(sorted) <= v
         THEN <<Head(sorted)>> \o InsertInt(Tail(sorted), v)
         ELSE <<v>> \o sorted

\* the sorted copy np.percentile works on
RECURSIVE SortInts(_)
SortInts(s) ==
    IF s = <<>> THEN <<>>
    ELSE InsertInt(SortInts(SubSeq(s, 1, Len(s) - 1)), s[Len(s)])

\* Python's None
None == [isNone |-> TRUE]

IsNone(x) == x = None

(***************************************************************************)
(* numpy arrays: [shape, data], data in row-major order.                   *)
(***************************************************************************)
ndim(arr) == Len(arr.shape)

size(arr) == Len(arr.data)

\* arr[c - 1] of an array with at least one axis (c counts from 1)
Index0(arr, c) ==
    LET sub == Tail(arr.shape)
        n   == Prod(sub)
    IN [shape |-> sub, data |-> SubSeq(arr.data, (c - 1) * n + 1, c * n)]

\* arr[..., 0] of a 3-D array
LastAxis0(arr) ==
    LET sub == SubSeq(arr.shape, 1, 2)
        C   == arr.shape[3]
    IN [shape |-> sub,
        data  |-> [j \in 1..Prod(sub) |-> arr.data[(j - 1) * C + 1]]]

\* np.ones((H, W))
Ones(H, W) == [shape |-> <<H, W>>, data |-> [j \in 1..(H * W) |-> One]]

(***************************************************************************)
(* _pick_array                                                             *)
(***************************************************************************)
name_priority(want) ==
    CASE want = "score" -> <<"score", "global", "integrity", "sigmoid">>
      [] want = "loc"   -> <<"map", "mask", "loc", "pred", "tamper">>
      [] want = "rel"   -> <<"reliab", "conf", "uncert">>
      [] OTHER          -> <<>>

\* The priority tokens that occur as substrings of k.lower(), for the keys
\* the model uses.
TokensIn(k) ==
    CASE k = "score"    -> {"score"}
      [] k = "map"      -> {"map"}
      [] k = "conf"     -> {"conf"}
      [] k = "np++"     -> {}
      [] k = "sigmoid"  -> {"sigmoid"}
      [] k = "conf_map" -> {"conf", "map"}
      [] k = "pred_mask" -> {"pred", "mask"}
      [] OTHER          -> {}

name_rank(k, want) ==
    LET pr   == name_priority(want)
        hits == {i \in 1..Len(pr) : pr[i] \in TokensIn(k)}
    IN IF hits = {} THEN 999
       ELSE (CHOOSE i \in hits : \A j \in hits : i <= j) - 1

\* np.isscalar(arr) or arr.size == 1 (an .npz entry is always an ndarray)
IsScalarish(arr) == size(arr) = 1

\* variant: arr[0] in place of arr[..., 0]
ChannelLastFirstRow(arr) == Index0(arr, 1)

\* the (H, W) view of a 3-D entry whose first two axes are (H, W)
ChannelLastView(arr) == LastAxis0(arr)

\* the (H, W) view of a 3-D entry whose last two axes are (H, W)
ChannelFirstView(arr) ==
    IF arr.shape[1] = 1 THEN Index0(arr, 1) ELSE Index0(arr, arr.shape[1])

\* the array a map role takes from an entry, or None when the shape does not fit
MapView(arr, H, W) ==
    IF ndim(arr) = 2 /\ arr.shape[1] = H /\ arr.shape[2] = W THEN arr
    ELSE IF ndim(arr) = 3
         THEN IF SubSeq(arr.shape, 2, 3) = <<H, W>> THEN ChannelFirstView(arr)
              ELSE IF SubSeq(arr.shape, 1, 2) = <<H, W>>
                   THEN ChannelLastView(arr)
                   ELSE None
         ELSE None

\* the candidate list `cand`, in key order
RECURSIVE Candidates(_, _, _, _)
Candidates(bundle, want, H, W) ==
    IF bundle = <<>> THEN <<>>
    ELSE LET e    == Head(bundle)
             rest == Candidates(Tail(bundle), want, H, W)
             a    == IF want = "score"
                     THEN (IF IsScalarish(e.arr) THEN e.arr ELSE None)
                     ELSE MapView(e.arr, H, W)
         IN IF IsNone(a) THEN rest
            ELSE <<[rank |-> name_rank(e.key, want), key |-> e.key,
                    arr |-> a]>> \o rest

\* variant: a candidate goes in front of the candidates of its own rank
RECURSIVE InsertBeforeTies(_, _)
InsertBeforeTies(sorted, c) ==
    IF sorted = <<>> THEN <<c>>
    ELSE IF Head(sorted).rank < c.rank
         THEN <<Head(sorted)>> \o InsertBeforeTies(Tail(sorted), c)
         ELSE <<c>> \o sorted

RECURSIVE InsertByRank(_, _)
InsertByRank(sorted, c) ==
    IF sorted = <<>> THEN <<c>>
    ELSE IF Head(sorted).rank <= c.rank
         THEN <<Head(sorted)>> \o InsertByRank(Tail(sorted), c)
         ELSE <<c>> \o sorted

\* cand.sort(key=lambda t: t[0]): a stable sort by rank
RECURSIVE SortByRank(_)
SortByRank(cand) ==
    IF cand = <<>> THEN <<>>
    ELSE InsertByRank(SortByRank(SubSeq(cand, 1, Len(cand) - 1)),
                      cand[Len(cand)])

pick_array(bundle, want, H, W) ==
    LET cand == Candidates(bundle, want, H, W)
    IN IF cand = <<>> THEN None ELSE SortByRank(cand)[1].arr

(***************************************************************************)
(* load_trufor_outputs                                                     *)
(***************************************************************************)
\* 100 * np.percentile(m, q) of the sorted values (linear interpolation)
Percentile100(sorted, q) ==
    LET n   == Len(sorted)
        at  == q * (n - 1)
        i   == at \div 100
        g   == at % 100
    IN IF g = 0 THEN 100 * sorted[i + 1]
       ELSE 100 * sorted[i + 1] + g * (sorted[i + 2] - sorted[i + 1])

\* variant: no np.clip
norm01Unclipped(m) ==
    LET s  == SortInts(m.data)
        lo == Percentile100(s, 1)
        hi == Percentile100(s, 99)
    IN IF (hi - lo) * 10000 < One
       THEN [shape |-> m.shape, data |-> m.data, den |-> One]
       ELSE [shape |-> m.shape,
             data  |-> [j \in 1..Len(m.data) |-> 100 * m.data[j] - lo],
             den   |-> hi - lo]

\* norm01: the result is [shape, data, den], pixel j being data[j] / den
norm01(m) ==
    LET s  == SortInts(m.data)
        lo == Percentile100(s, 1)
        hi == Percentile100(s, 99)
    \* hi - lo < 1e-6, that is (hi - lo) / (100 * One) < 1 / 1000000
    IN IF (hi - lo) * 10000 < One
       THEN [shape |-> m.shape,
             data  |-> [j \in 1..Len(m.data) |-> Clip(m.data[j], 0, One)],
             den   |-> One]
       ELSE [shape |-> m.shape,
             data  |-> [j \in 1..Len(m.data) |->
                           Clip(100 * m.data[j] - lo, 0, hi - lo)],
             den   |-> hi - lo]

\* norm01 of a map whose pixel j is data[j] / den (norm01 is the case
\* den = One): lo and hi are Percentile100 / (100 * den)
norm01Scaled(m) ==
    LET s  == SortInts(m.data)
        lo == Percentile100(s, 1)
        hi == Percentile100(s, 99)
    \* hi - lo < 1e-6, that is (hi - lo) / (100 * den) < 1 / 1000000,
    \* or (hi - lo) * 10000 < den
    IN IF hi - lo <= (m.den - 1) \div 10000
       THEN [shape |-> m.shape,
             data  |-> [j \in 1..Len(m.data) |-> Clip(m.data[j], 0, m.den)],
             den   |-> m.den]
       ELSE [shape |-> m.shape,
             data  |-> [j \in 1..Len(m.data) |->
                           Clip(100 * m.data[j] - lo, 0, hi - lo)],
             den   |-> hi - lo]

\* list(npz.keys())
RECURSIVE Keys(_)
Keys(bundle) ==
    IF bundle = <<>> THEN <<>> ELSE <<Head(bundle).key>> \o Keys(Tail(bundle))

\* the "last resort" loop: the first scalar-ish entry in key order
RECURSIVE FirstScalarish(_)
FirstScalarish(bundle) ==
    IF bundle = <<>> THEN None
    ELSE IF IsScalarish(Head(bundle).arr) THEN Head(bundle).arr
         ELSE FirstScalarish(Tail(bundle))

\* variant: the message lists the scalar entries only
ScalarKeys(bundle) == Keys(SelectSeq(bundle, LAMBDA e : IsScalarish(e.arr)))

\* the keys the KeyError message lists
AvailableKeys(bundle) == Keys(bundle)

\* the KeyError of load_trufor_outputs: the message is the fixed text, the
\* path and the key list
ResolutionError(npz_path, bundle) ==
    [type |-> "KeyError",
     msg  |-> "Could not infer required outputs",
     text |-> {"Could not infer required outputs from", "Available keys:"},
     path |-> npz_path,
     keys |-> AvailableKeys(bundle)]

\* the reliability map before normalisation
RelOrOnes(rel, H, W) == IF IsNone(rel) THEN Ones(H, W) ELSE rel

\* [ok |-> TRUE, score, loc, rel], or [ok |-> FALSE, error] when it raises
load_trufor_outputs(npz_path, bundle, H, W) ==
    LET picked == pick_array(bundle, "score", H, W)
        loc    == pick_array(bundle, "loc", H, W)
        rel    == pick_array(bundle, "rel", H, W)
        score_arr == IF IsNone(picked) THEN FirstScalarish(bundle) ELSE picked
    IN IF IsNone(score_arr) \/ IsNone(loc)
       THEN [ok |-> FALSE, error |-> ResolutionError(npz_path, bundle)]
       ELSE [ok    |-> TRUE,
             score |-> score_arr.data[1],
             loc   |-> norm01(loc),
             rel   |-> norm01(RelOrOnes(rel, H, W))]

(***************************************************************************)
(* Fractions: [n, d] stands for n / d; d = 0 is NaN.                       *)
(***************************************************************************)
Frac(n, d) == [n |-> n, d |-> d]

NaN == Frac(0, 0)

\* a > b and a >= b for floats; every comparison with NaN is false
FracGt(a, b) == a.d > 0 /\ b.d > 0 /\ a.n * b.d > b.n * a.d

FracGe(a, b) == a.d > 0 /\ b.d > 0 /\ a.n * b.d >= b.n * a.d

RECURSIVE Gcd(_, _)
Gcd(a, b) == IF b = 0 THEN a ELSE Gcd(b, a % b)

\* the same fraction in lowest terms (d > 0)
Lowest(n, d) == Frac(n \div Gcd(n, d), d \div Gcd(n, d))

\* the float of a raw array value
Raw(v) == Frac(v, One)

\* the float of a threshold, which the model gives in hundredths
Hundredths(t) == Frac(t, 100)

\* f"{x:.3f}" of x >= 0: the value in thousandths, rounded to nearest,
\* by long division
Round3(a) ==
    LET q0 == a.n \div a.d
        r0 == a.n % a.d
        q1 == (10 * r0) \div a.d
        r1 == (10 * r0) % a.d
        q2 == (10 * r1) \div a.d
        r2 == (10 * r1) % a.d
        q3 == (10 * r2) \div a.d
        r3 == (10 * r2) % a.d
    IN 1000 * q0 + 100 * q1 + 10 * q2 + q3 + (IF 2 * r3 >= a.d THEN 1 ELSE 0)

(***************************************************************************)
(* clamp_box, crop                                                         *)
(***************************************************************************)
\* variant: width and height without the floor of 1
clamp_box_unfloored(x, y, w, h, W, H) ==
    LET x1 == Max2(0, Min2(x, W - 1))
        y1 == Max2(0, Min2(y, H - 1))
    IN <<x1, y1, Min2(w, W - x1), Min2(h, H - y1)>>

clamp_box(x, y, w, h, W, H) ==
    LET x1 == Max2(0, Min2(x, W - 1))
        y1 == Max2(0, Min2(y, H - 1))
        w1 == Max2(1, Min2(w, W - x1))
        h1 == Max2(1, Min2(h, H - y1))
    IN <<x1, y1, w1, h1>>

\* the row-major indices of img[y:y+h, x:x+w] in an H x W array (x, y >= 0)
RECURSIVE CropIndices(_, _, _, _, _, _)
CropIndices(x, y, w, h, W, H) ==
    IF h <= 0 \/ y >= H THEN <<>>
    ELSE [c \in 1..Max2(0, Min2(x + w, W) - x) |-> y * W + x + c]
         \o CropIndices(x, y + 1, w, h - 1, W, H)

crop(m, x, y, w, h) ==
    LET idx == CropIndices(x, y, w, h, m.shape[2], m.shape[1])
    IN [j \in 1..Len(idx) |-> m.data[idx[j]]]

(***************************************************************************)
(* ocr_line_boxes.  A token is [text, conf, left, top, width, height,      *)
(* line], line being (block_num, par_num, line_num).  A text is a          *)
(* sequence of words.                                                      *)
(***************************************************************************)
\* (text or "").strip()
Strip(t) == IF t \in {"", " "} THEN "" ELSE t

\* the words of the model's images that hold a digit character
DigitWords == {"7h", "35m", "2"}

\* variant: any line with words counts
HasWords(words) == words # <<>>

\* any(ch.isdigit() for ch in " ".join(words))
HasDigit(words) == \E k \in 1..Len(words) : words[k] \in DigitWords

\* the position of the line with this key in `lines`, or 0
LineAt(lines, key) ==
    IF \E k \in 1..Len(lines) : lines[k].key = key
    THEN CHOOSE k \in 1..Len(lines) : lines[k].key = key
    ELSE 0

\* one turn of the token loop
AddToken(lines, tok, min_conf, min_size) ==
    LET txt == Strip(tok.text)
        x   == tok.left
        y   == tok.top
        k   == LineAt(lines, tok.line)
    IN IF txt = "" THEN lines
       ELSE IF tok.conf < min_conf THEN lines
       ELSE IF tok.width < min_size \/ tok.height < min_size THEN lines
       ELSE IF k = 0
            THEN Append(lines,
                        [key |-> tok.line, x1 |-> x, y1 |-> y,
                         x2 |-> x + tok.width, y2 |-> y + tok.height,
                         words |-> <<txt>>, conf_sum |-> tok.conf,
                         conf_n |-> 1])
            ELSE [lines EXCEPT ![k] =
                        [key |-> tok.line,
                         x1 |-> Min2(@.x1, x), y1 |-> Min2(@.y1, y),
                         x2 |-> Max2(@.x2, x + tok.width),
                         y2 |-> Max2(@.y2, y + tok.height),
                         words |-> Append(@.words, txt),
                         conf_sum |-> @.conf_sum + tok.conf,
                         conf_n |-> @.conf_n + 1]]

RECURSIVE GroupLines(_, _, _, _)
GroupLines(lines, tokens, min_conf, min_size) ==
    IF tokens = <<>> THEN lines
    ELSE GroupLines(AddToken(lines, Head(tokens), min_conf, min_size),
                    Tail(tokens), min_conf, min_size)

RECURSIVE LineBoxes(_, _)
LineBoxes(lines, min_size) ==
    IF lines = <<>> THEN <<>>
    ELSE LET d    == Head(lines)
             w    == d.x2 - d.x1
             h    == d.y2 - d.y1
             rest == LineBoxes(Tail(lines), min_size)
         IN IF ~HasDigit(d.words) THEN rest
            ELSE IF w < min_size \/ h < min_size THEN rest
            ELSE <<[x |-> d.x1, y |-> d.y1, w |-> w, h |-> h,
                    text |-> d.words,
                    conf |-> Frac(d.conf_sum, Max2(1, d.conf_n))]>> \o rest

ocr_line_boxes(tokens, min_conf, min_size) ==
    LineBoxes(GroupLines(<<>>, tokens, min_conf, min_size), min_size)

(***************************************************************************)
(* roi_anomaly_score                                                       *)
(***************************************************************************)
\* variant: I(r > rel_min)
ReliableStrict(r, den, rel_min) == IF r * 100 > rel_min * den THEN 1 ELSE 0

\* I(r >= rel_min) for a pixel of value r / den
Reliable(r, den, rel_min) == IF r * 100 >= rel_min * den THEN 1 ELSE 0

roi_anomaly_score(loc, rel, roi, rel_min) ==
    LET H   == loc.shape[1]
        W   == loc.shape[2]
        b   == clamp_box(roi.x, roi.y, roi.w, roi.h, W, H)
        l   == crop(loc, b[1], b[2], b[3], b[4])
        r   == crop(rel, b[1], b[2], b[3], b[4])
        n   == Len(l)
        m   == [j \in 1..n |-> Reliable(r[j], rel.den, rel_min)]
    IN IF 100 * SumSeq(m) < 15 * n                      \* m.mean() < 0.15
       THEN Lowest(SumSeq([j \in 1..n |-> l[j] * r[j]]),
                   4 * n * loc.den * rel.den)           \* (l * r).mean() * 0.25
       ELSE Lowest(SumSeq([j \in 1..n |-> l[j] * m[j]]), n * loc.den)

(***************************************************************************)
(* The world of a batch run: the image files, what the OCR engine reads    *)
(* in them, and the bundles the forensics model can write.                 *)
(***************************************************************************)
Path(dir, stem) == [dir |-> dir, name |-> <<stem, "png">>]

pA == Path("x", "a")    \* a readable screenshot with two digit-bearing lines
pB == Path("y", "a")    \* a readable screenshot without digits, same file name
pU == Path("x", "u")    \* a file cv2.imread cannot decode
pM == Path("x", "m")    \* no such file
pC == Path("x", "c")    \* a readable screenshot without digits, a name of its own

ImagePaths == {pA, pB, pU, pM}

\* whether the file is on disk
Exists(p) == p # pM

Tok(text, conf, left, top, width, height, line) ==
    [text |-> text, conf |-> conf, left |-> left, top |-> top,
     width |-> width, height |-> height, line |-> line]

\* pytesseract.image_to_data for the two readable images
TokensA ==
    << Tok("7h", 90, 0, 0, 1, 1, <<1, 1, 1>>),
       Tok("35m", 80, 1, 0, 1, 1, <<1, 1, 1>>),
       Tok("Settings", 95, 0, 1, 2, 1, <<1, 1, 2>>),
       Tok("2", 85, 0, 1, 2, 1, <<1, 2, 1>>),
       Tok(" ", 95, 0, 0, 2, 2, <<2, 1, 1>>) >>

TokensB ==
    << Tok("Screen", 90, 0, 0, 1, 1, <<1, 1, 1>>),
       Tok("Time", 90, 1, 0, 1, 1, <<1, 1, 1>>) >>

\* cv2.imread: the image, or None
imread(p) ==
    IF p = pA THEN [shape |-> <<2, 2>>, tokens |-> TokensA]
    ELSE IF p = pB THEN [shape |-> <<2, 2>>, tokens |-> TokensB]
    ELSE IF p = pC THEN [shape |-> <<2, 2>>, tokens |-> TokensB]
    ELSE None

Entry(key, shape, data) == [key |-> key, arr |-> [shape |-> shape, data |-> data]]

\* the bundles the model writes, by name
BundleOf(id) ==
    CASE id = "full" ->
           << Entry("map", <<2, 2>>, <<0, 0, 10, 6>>),
              Entry("conf", <<2, 2>>, <<9, 9, 9, 2>>),
              Entry("score", <<>>, <<2>>),
              Entry("np++", <<2, 2>>, <<5, 7, 5, 7>>) >>
      [] id = "quiet" ->
           << Entry("score", <<1>>, <<3>>),
              Entry("map", <<1, 2, 2>>, <<0, 0, 0, 0>>) >>
      [] id = "bad" ->
           << Entry("map", <<2, 2>>, <<0, 0, 10, 6>>) >>
      [] OTHER -> <<>>

BundleIds == {"full", "quiet", "bad"}

\* what one run of the model subprocess does: its return code and the
\* bundle it writes ("none": it writes nothing)
ModelRuns ==
    {[ret |-> 1, bundle |-> "none"], [ret |-> 0, bundle |-> "none"]}
    \cup {[ret |-> 0, bundle |-> b] : b \in BundleIds}

(***************************************************************************)
(* run_trufor                                                              *)
(***************************************************************************)
Exc(type, msg) == [type |-> type, msg |-> msg]

\* the file name the model writes its bundle under
OutputName(image_path, naming) ==
    IF naming = "name" THEN image_path.name \o <<"npz">>
    ELSE <<image_path.name[1], "npz">>

\* out_dir after the model wrote `bundle` as `name`
WriteNpz(dir, name, bundle, mtime, writer) ==
    {f \in dir : f.name # name}
    \cup {[name |-> name, bundle |-> bundle, mtime |-> mtime, writer |-> writer]}

\* sorted(out_dir.glob("*.npz"), key=mtime, reverse=True)[0]
Newest(dir) == CHOOSE f \in dir : \A g \in dir : g.mtime <= f.mtime

\* the path run_trufor returns once the subprocess succeeded; <<>>: it raises
NpzPath(image_path, dir) ==
    LET expected == image_path.name \o <<"npz">>
    IN IF \E f \in dir : f.name = expected THEN expected
       ELSE IF dir = {} THEN <<>>
       ELSE Newest(dir).name

\* [raised, error, npz_path, dir, invoked]
run_trufor(t, image_path, dir, run, mtime, callno) ==
    IF ~t.script
    THEN [raised |-> TRUE, invoked |-> FALSE, dir |-> dir, npz_path |-> <<>>,
          error |-> Exc("FileNotFoundError",
                        "Could not find TruFor inference script")]
    ELSE IF run.ret # 0
    THEN [raised |-> TRUE, invoked |-> TRUE, dir |-> dir, npz_path |-> <<>>,
          error |-> Exc("RuntimeError", "TruFor inference failed.")]
    ELSE LET after == IF run.bundle = "none" THEN dir
                      ELSE WriteNpz(dir, OutputName(image_path, t.naming),
                                    run.bundle, mtime, callno)
             path  == NpzPath(image_path, after)
         IN IF path = <<>>
            THEN [raised |-> TRUE, invoked |-> TRUE, dir |-> after,
                  npz_path |-> <<>>,
                  error |-> Exc("FileNotFoundError", "No .npz output found")]
            ELSE [raised |-> FALSE, invoked |-> TRUE, dir |-> after,
                  npz_path |-> path, error |-> Exc("", "")]

(***************************************************************************)
(* analyze_image                                                           *)
(***************************************************************************)
\* variant: a region that ties with the best so far replaces it
RECURSIVE ScoreRoisLastWins(_, _, _, _, _)
ScoreRoisLastWins(rois, loc, rel, rel_min, acc) ==
    IF rois = <<>> THEN acc
    ELSE LET s == roi_anomaly_score(loc, rel, Head(rois), rel_min)
         IN ScoreRoisLastWins(Tail(rois), loc, rel, rel_min,
                              IF FracGe(s, acc.max_roi)
                              THEN [max_roi |-> s, best_roi |-> Head(rois)]
                              ELSE acc)

\* the loop over rois: acc is [max_roi, best_roi]
RECURSIVE ScoreRois(_, _, _, _, _)
ScoreRois(rois, loc, rel, rel_min, acc) ==
    IF rois = <<>> THEN acc
    ELSE LET s == roi_anomaly_score(loc, rel, Head(rois), rel_min)
         IN ScoreRois(Tail(rois), loc, rel, rel_min,
                      IF FracGt(s, acc.max_roi)
                      THEN [max_roi |-> s, best_roi |-> Head(rois)]
                      ELSE acc)

\* variant: the global comparison is reversed
FlaggedBelow(score, max_roi, global_thresh, roi_thresh) ==
    \/ FracGe(Hundredths(global_thresh), score)
    \/ FracGe(max_roi, Hundredths(roi_thresh))

\* variant: the global comparison is strict
FlaggedStrict(score, max_roi, global_thresh, roi_thresh) ==
    \/ FracGt(score, Hundredths(global_thresh))
    \/ FracGe(max_roi, Hundredths(roi_thresh))

\* flagged = (score >= global_thresh) or (max_roi >= roi_thresh)
Flagged(score, max_roi, global_thresh, roi_thresh) ==
    \/ FracGe(score, Hundredths(global_thresh))
    \/ FracGe(max_roi, Hundredths(roi_thresh))

\* the file with this name in out_dir
FileNamed(dir, name) == CHOOSE f \in dir : f.name = name

\* variant: max_roi starts at 1.0
InitialBestOne == [max_roi |-> Frac(1, 1), best_roi |-> None]

\* max_roi and best_roi before the loop over rois
InitialBest == [max_roi |-> Frac(0, 1), best_roi |-> None]

NoFile == [file |-> <<>>, bundle |-> "none", writer |-> 0]

\* the return value of the `if img is None` branch
UnreadableResult ==
    [status |-> "error", error |-> "Could not read image",
     trufor_score |-> NaN, max_roi_score |-> NaN, n_rois |-> 0,
     best_roi |-> None, npz_path |-> <<>>]

\* the dictionary analyze_image returns after scoring
Verdict(o, rois, a, npz_path) ==
    LET score == Raw(o.score)
        best  == ScoreRois(rois, o.loc, o.rel, a.rel_min, InitialBest)
    IN [status |-> IF Flagged(score, best.max_roi, a.global_thresh,
                              a.roi_thresh)
                   THEN "flagged" ELSE "ok",
        error |-> "",
        trufor_score |-> score,
        max_roi_score |-> best.max_roi,
        n_rois |-> Len(rois),
        best_roi |-> best.best_roi,
        npz_path |-> npz_path]

\* what pytesseract.image_to_data does on a call
OcrEngine == {"reads", "raises"}

\* [raised, error, res, dir, invoked, stage, loaded]: what the call returns
\* or raises, out_dir after it, whether the subprocess ran, the statement
\* the call ended in, and the file it resolved with the run that wrote it
analyze_image(t, image_path, dir, run, mtime, callno, a, engine) ==
    LET img == imread(image_path)
    IN IF IsNone(img)
       THEN [raised |-> FALSE, error |-> Exc("", ""), dir |-> dir,
             invoked |-> FALSE, stage |-> "imread", loaded |-> NoFile,
             res |-> UnreadableResult]
       ELSE
       LET H  == img.shape[1]
           W  == img.shape[2]
           tr == run_trufor(t, image_path, dir, run, mtime, callno)
       IN IF tr.raised
          THEN [raised |-> TRUE, error |-> tr.error, dir |-> tr.dir,
                invoked |-> tr.invoked, stage |-> "run_trufor",
                loaded |-> NoFile, res |-> None]
          ELSE
          LET file == FileNamed(tr.dir, tr.npz_path)
              ld   == [file |-> file.name, bundle |-> file.bundle,
                       writer |-> file.writer]
              o    == load_trufor_outputs(tr.npz_path, BundleOf(file.bundle), H, W)
          IN IF ~o.ok
             THEN [raised |-> TRUE, error |-> Exc(o.error.type, o.error.msg),
                   dir |-> tr.dir, invoked |-> TRUE,
                   stage |-> "load_trufor_outputs", loaded |-> ld,
                   res |-> None]
             ELSE IF engine = "raises"
             THEN [raised |-> TRUE,
                   error |-> Exc("TesseractError", "tesseract failed"),
                   dir |-> tr.dir, invoked |-> TRUE,
                   stage |-> "ocr_line_boxes", loaded |-> ld, res |-> None]
             ELSE [raised |-> FALSE, error |-> Exc("", ""), dir |-> tr.dir,
                   invoked |-> TRUE, stage |-> "return", loaded |-> ld,
                   res |-> Verdict(o,
                                   ocr_line_boxes(img.tokens, a.min_conf,
                                                  a.min_size),
                                   a, tr.npz_path)]

(***************************************************************************)
(* save_crop and the report rows of main                                   *)
(***************************************************************************)
\* the pad main passes to save_crop
CropPad == 28

\* the box of the patch save_crop writes
save_crop_box(shape, roi, pad) ==
    clamp_box(roi.x - pad, roi.y - pad, roi.w + 2 * pad, roi.h + 2 * pad,
              shape[2], shape[1])

\* crop_name: task id, column, and the two scores with three decimals
crop_name(task_id, col, res) ==
    <<task_id, col, Round3(res.max_roi_score), Round3(res.trufor_score)>>

\* variant: a crop for every image with a best region
ExportsBestRegion(res) == ~IsNone(res.best_roi)

\* `if res["status"] == "flagged" and best_roi is not None`
Exports(res) == res.status = "flagged" /\ ~IsNone(res.best_roi)

\* cv2.imwrite to crops_dir
WriteCrop(dir, name, box) ==
    {c \in dir : c.name # name} \cup {[name |-> name, box |-> box]}

\* variant: the error row drops the message
ErrorRowNoMessage(task_id, col, img_path, msg) ==
    [task_id |-> task_id, image_col |-> col, image_path |-> img_path,
     status |-> "error", error |-> "",
     trufor_score |-> NaN, max_roi_score |-> NaN, n_rois |-> 0,
     npz_path |-> <<>>, best_roi_text |-> <<>>, best_roi_conf |-> NaN,
     crop_path |-> <<>>]

\* the row of the "File not found" branch and of the except branch
ErrorRow(task_id, col, img_path, msg) ==
    [task_id |-> task_id, image_col |-> col, image_path |-> img_path,
     status |-> "error", error |-> msg,
     trufor_score |-> NaN, max_roi_score |-> NaN, n_rois |-> 0,
     npz_path |-> <<>>, best_roi_text |-> <<>>, best_roi_conf |-> NaN,
     crop_path |-> <<>>]

\* the row of the try branch
ResultRow(task_id, col, img_path, res, crop_path) ==
    [task_id |-> task_id, image_col |-> col, image_path |-> img_path,
     status |-> res.status, error |-> res.error,
     trufor_score |-> res.trufor_score,
     max_roi_score |-> res.max_roi_score, n_rois |-> res.n_rois,
     npz_path |-> res.npz_path,
     best_roi_text |-> IF IsNone(res.best_roi) THEN <<>> ELSE res.best_roi.text,
     best_roi_conf |-> IF IsNone(res.best_roi) THEN NaN ELSE res.best_roi.conf,
     crop_path |-> crop_path]

\* the classes `except Exception` catches, among those the loop body raises
ExceptionClasses ==
    {"FileNotFoundError", "RuntimeError", "KeyError", "TesseractError",
     "cv2.error"}

\* variant: the handler names the errors of run_trufor only
CaughtRunErrors(e) == e.type \in {"FileNotFoundError", "RuntimeError"}

\* `except Exception as e`
Caught(e) == e.type \in ExceptionClasses

(***************************************************************************)
(* main: the batch loop.  One action per turn of the inner loop.           *)
(***************************************************************************)
\* variant: the existence check is gone
FileMissingNever(img_path) == FALSE

\* `if not img_path.exists()`
FileMissing(img_path) == ~Exists(img_path)

\* the trace entry of one report row
Traced(image, stage, call, run, loaded) ==
    [image |-> image, stage |-> stage, call |-> call, ret |-> run.ret,
     wrote |-> run.bundle, file |-> loaded.file, bundle |-> loaded.bundle,
     writer |-> loaded.writer]

\* no model run
NoRun == [ret |-> -1, bundle |-> "none"]

NaNCell == [nan |-> TRUE]

IsNaN(c) == "nan" \in DOMAIN c

PathCols == <<"total_screenshot_path", "app_screenshot1_path">>

InLoop == pc = "loop" /\ pos[1] <= Len(df)

Cell == df[pos[1]].cells[pos[2]]

\* variant: the loop stays on the cell it has just handled
AdvanceNever(p) == p

\* the next (row, column) of `for i, r in df.iterrows(): for col in path_cols`
Advance(p) ==
    IF p[2] < Len(args.path_cols) THEN <<p[1], p[2] + 1>> ELSE <<p[1] + 1, 1>>

\* `if col not in r or pd.isna(r[col]): continue`
SkipCell ==
    /\ InLoop
    /\ IsNaN(Cell)
    /\ pos' = Advance(pos)
    /\ UNCHANGED <<df, args, rows, out_csv, out_dir, clock, crops_dir, calls,
                   trace, trufor, pc>>

\* `if not img_path.exists(): rows.append(...); continue`
FileNotFound ==
    /\ InLoop
    /\ ~IsNaN(Cell)
    /\ FileMissing(Cell)
    /\ rows' = Append(rows, ErrorRow(df[pos[1]].task_id, args.path_cols[pos[2]],
                                     Cell, "File not found"))
    /\ trace' = Append(trace, Traced(Cell, "exists", 0, NoRun, NoFile))
    /\ pos' = Advance(pos)
    /\ UNCHANGED <<df, args, out_csv, out_dir, clock, crops_dir, calls,
                   trufor, pc>>

\* the try block: analyze_image, save_crop, rows.append; and its except
AnalyzeImage ==
    /\ InLoop
    /\ ~IsNaN(Cell)
    /\ ~FileMissing(Cell)
    /\ \E run \in ModelRuns, engine \in OcrEngine :
       \E an \in {analyze_image(trufor, Cell, out_dir, run, clock + 1,
                                Len(calls) + 1, args, engine)} :
       \E imwrite \in {"written", "raises"} :
         LET task_id == df[pos[1]].task_id
             col     == args.path_cols[pos[2]]
             export  == ~an.raised /\ Exports(an.res)
             e       == IF an.raised THEN an.error
                        ELSE Exc("cv2.error", "could not write image")
             raised  == an.raised \/ (export /\ imwrite = "raises")
             name    == crop_name(task_id, col, an.res)
             entry   == Traced(Cell,
                               IF ~an.raised /\ raised THEN "save_crop"
                               ELSE an.stage,
                               IF an.invoked THEN Len(calls) + 1 ELSE 0,
                               IF an.invoked THEN run ELSE NoRun, an.loaded)
         IN /\ out_dir' = an.dir
            /\ clock' = IF an.dir = out_dir THEN clock ELSE clock + 1
            /\ calls' = IF an.invoked THEN Append(calls, Cell) ELSE calls
            /\ crops_dir' = IF export /\ imwrite = "written"
                            THEN WriteCrop(crops_dir, name,
                                           save_crop_box(imread(Cell).shape,
                                                         an.res.best_roi, CropPad))
                            ELSE crops_dir
            /\ IF ~raised
               THEN /\ rows' = Append(rows,
                                  ResultRow(task_id, col, Cell, an.res,
                                            IF export THEN name ELSE <<>>))
                    /\ trace' = Append(trace, entry)
                    /\ pos' = Advance(pos)
                    /\ pc' = pc
               ELSE IF Caught(e)
               THEN /\ rows' = Append(rows, ErrorRow(task_id, col, Cell, e.msg))
                    /\ trace' = Append(trace, entry)
                    /\ pos' = Advance(pos)
                    /\ pc' = pc
               ELSE /\ pc' = "crashed"
                    /\ UNCHANGED <<rows, trace, pos>>
    /\ UNCHANGED <<df, args, out_csv, trufor>>

\* after the loop: out.to_csv(out_csv)
SaveReport ==
    /\ pc = "loop"
    /\ pos[1] > Len(df)
    /\ out_csv' = rows
    /\ pc' = "saved"
    /\ UNCHANGED <<df, args, pos, rows, out_dir, clock, crops_dir, calls,
                   trace, trufor>>

\* the thresholds (in hundredths) and OCR limits of a run
ArgsSet ==
    {[min_conf |-> 40, min_size |-> 1, rel_min |-> 40, path_cols |-> PathCols,
      global_thresh |-> th[1], roi_thresh |-> th[2]] :
        th \in {<<50, 22>>, <<50, 0>>, <<30, 60>>}}

\* the TruFor checkouts: with or without a test script; writing
\* <image name>.npz or <image stem>.npz
TruForSet ==
    {[script |-> TRUE, naming |-> "name"], [script |-> TRUE, naming |-> "stem"],
     [script |-> FALSE, naming |-> "name"]}

\* how many cells of a table hold a path
NumPaths(t) ==
    Cardinality({ij \in (1..2) \X (1..2) : ~IsNaN(t[ij[1]][ij[2]])})

\* the input tables: two rows, two path columns, at most MaxImages paths
Tables ==
    {[i \in 1..2 |-> [task_id |-> i, cells |-> t[i]]] :
        t \in {u \in [1..2 -> [1..2 -> ImagePaths \cup {NaNCell}]] :
                 NumPaths(u) <= MaxImages}}

ResolverIdle ==
    /\ npz = <<>>
    /\ img_shape = <<1, 1>>
    /\ outs = None
    /\ rpc = "idle"

OcrIdle == ocr_call = None /\ ocr_ret = None

RoiIdle == roi_call = None /\ roi_ret = None

BoxIdle == box_call = None /\ box_ret = None

DecideIdle == dec_call = None /\ dec_ret = None

NormIdle == norm_call = None /\ norm_ret = None

BestIdle == best_call = None /\ best_ret = None

ParIdle == par_dir = None /\ par_clock = None /\ workers = None

HiveIdle == hive = None

SightIdle == sight = None

RetryIdle == retry = None

RestIdle ==
    /\ DecideIdle
    /\ NormIdle
    /\ BestIdle
    /\ ParIdle
    /\ HiveIdle
    /\ SightIdle
    /\ RetryIdle

Init ==
    /\ df \in Tables
    /\ args \in ArgsSet
    /\ trufor \in TruForSet
    /\ pos = <<1, 1>>
    /\ rows = <<>>
    /\ out_csv = <<>>
    /\ out_dir = {}
    /\ clock = 0
    /\ crops_dir = {}
    /\ calls = <<>>
    /\ trace = <<>>
    /\ pc = "loop"
    /\ ResolverIdle
    /\ OcrIdle
    /\ RoiIdle
    /\ BoxIdle
    /\ RestIdle

Next ==
    \/ SkipCell /\ UNCHANGED <<resolverVars, ocrVars, roiVars, boxVars,
                               restVars>>
    \/ FileNotFound /\ UNCHANGED <<resolverVars, ocrVars, roiVars, boxVars,
                                   restVars>>
    \/ AnalyzeImage /\ UNCHANGED <<resolverVars, ocrVars, roiVars, boxVars,
                                   restVars>>
    \/ SaveReport /\ UNCHANGED <<resolverVars, ocrVars, roiVars, boxVars,
                                 restVars>>

Spec == Init /\ [][Next]_vars

(***************************************************************************)
(* One call of load_trufor_outputs on a bundle drawn from bounded sets.    *)
(***************************************************************************)
BundleKeys == {"score", "map", "conf"}

\* entry shapes: scalars, 1-D, (H, W), its transpose, channel-first and
\* channel-last 3-D
EntryShapes(H, W) ==
    {<<>>, <<1>>, <<H * W>>, <<H, W>>, <<W, H>>}
    \cup {<<c, H, W>> : c \in 1..MaxChan}
    \cup {<<H, W, c>> : c \in 1..MaxChan}

\* the values of the entry at position i of a bundle
ValueRows == << <<3, 0, 10, 6>>, <<6, 25, 0, 10>>, <<12, 0, 4, 25>> >>

ValueAt(i, j) == ValueRows[((i - 1) % 3) + 1][((j - 1) % 4) + 1]

ArrayAt(i, shape) ==
    [shape |-> shape, data |-> [j \in 1..Prod(shape) |-> ValueAt(i, j)]]

\* keys that hold several tokens, tokens of two roles, or a late token
RankKeys == {"score", "sigmoid", "map", "conf_map", "pred_mask"}

\* the shapes of the entries under those keys
RankShapes(H, W) == {<<>>, <<H, W>>, <<1, H, W>>}

\* up to three distinct keys from `keys`, in any order
KeyOrders(keys) ==
    UNION {{k \in [1..n -> keys] : \A i, j \in 1..n : i # j => k[i] # k[j]} :
           n \in 0..3}

\* the bundle with keys ks, in that order, and entries of shapes sh
BundleFrom(ks, sh) ==
    [i \in 1..Len(ks) |-> [key |-> ks[i], arr |-> ArrayAt(i, sh[i])]]

\* the keys and the entry shapes bundles are made of
BundlePools(H, W) ==
    {<<BundleKeys, EntryShapes(H, W)>>, <<RankKeys, RankShapes(H, W)>>}

BatchIdle ==
    /\ df = <<>>
    /\ args = [path_cols |-> PathCols]
    /\ trufor = [script |-> TRUE, naming |-> "name"]
    /\ pos = <<1, 1>>
    /\ rows = <<>>
    /\ out_csv = <<>>
    /\ out_dir = {}
    /\ clock = 0
    /\ crops_dir = {}
    /\ calls = <<>>
    /\ trace = <<>>
    /\ pc = "idle"

ResolverInit ==
    /\ img_shape \in (1..MaxDim) \X (1..MaxDim)
    /\ \E pool \in BundlePools(img_shape[1], img_shape[2]) :
       \E ks \in KeyOrders(pool[1]) :
       \E sh \in [1..Len(ks) -> pool[2]] :
          npz = BundleFrom(ks, sh)
    /\ outs = None
    /\ rpc = "start"
    /\ BatchIdle
    /\ OcrIdle
    /\ RoiIdle
    /\ BoxIdle
    /\ RestIdle

Resolve ==
    /\ rpc = "start"
    /\ outs' = load_trufor_outputs(<<"bundle", "npz">>, npz, img_shape[1],
                                   img_shape[2])
    /\ rpc' = "done"
    /\ UNCHANGED <<npz, img_shape>>
    /\ UNCHANGED <<batchVars, ocrVars, roiVars, boxVars,
                   restVars>>

ResolverNext == Resolve

ResolverSpec == ResolverInit /\ [][ResolverNext]_vars

(***************************************************************************)
(* One call of ocr_line_boxes on a token list drawn from bounded sets.     *)
(***************************************************************************)
MaxTokens == 3    \* at most this many OCR tokens in a token list

\* text and confidence of a token: a digit word, a plain word, a digit
\* word read with low confidence, and blank text
TokenReadings == {<<"7h", 90>>, <<"Time", 60>>, <<"2", 30>>, <<" ", 90>>}

\* (left, top, width, height) of a token: a wide one and a narrow one
TokenBoxes == {<<0, 0, 2, 2>>, <<2, 1, 1, 2>>}

\* (block_num, par_num, line_num)
TokenLines == {<<1, 1, 1>>, <<1, 1, 2>>}

TokenSet ==
    {Tok(r[1], r[2], b[1], b[2], b[3], b[4], l) :
        r \in TokenReadings, b \in TokenBoxes, l \in TokenLines}

TokenLists == UNION {[1..n -> TokenSet] : n \in 0..MaxTokens}

OcrInit ==
    /\ ocr_call \in [tokens : TokenLists, min_conf : {40}, min_size : {1, 2}]
    /\ ocr_ret = None
    /\ BatchIdle
    /\ ResolverIdle
    /\ RoiIdle
    /\ BoxIdle
    /\ RestIdle

OcrLineBoxes ==
    /\ ocr_call # None
    /\ ocr_ret = None
    /\ ocr_ret' = [boxes |-> ocr_line_boxes(ocr_call.tokens, ocr_call.min_conf,
                                            ocr_call.min_size)]
    /\ UNCHANGED ocr_call
    /\ UNCHANGED <<batchVars, resolverVars, roiVars, boxVars,
                   restVars>>

OcrNext == OcrLineBoxes

OcrSpec == OcrInit /\ [][OcrNext]_vars

(***************************************************************************)
(* One call of roi_anomaly_score on resolved maps and a box drawn from     *)
(* bounded sets.                                                           *)
(***************************************************************************)
\* the values of a raw map, in row-major order: two varying ones (one with
\* values below 0 and above 1) and two constant ones
MapRows ==
    << <<0, 0, 10, 6>>, <<6, 25, -5, 10>>, <<4, 4, 4, 4>>, <<2, 2, 2, 2>> >>

\* the raw (H, W) map number i
RawMap(i, H, W) ==
    [shape |-> <<H, W>>,
     data  |-> [j \in 1..(H * W) |-> MapRows[i][((j - 1) % 4) + 1]]]

\* box corners and sizes inside, at the edge of and outside a side of
\* length n
Corners(n) == {-1, 0, n - 1, n}

Extents(n) == {0, 1, n, n + 1}

\* the (x, y, w, h) of the boxes for an (H, W) image
RoiBoxes(H, W) == Corners(W) \X Corners(H) \X Extents(W) \X Extents(H)

RoiInit ==
    /\ \E s \in (1..MaxDim) \X (1..MaxDim) :
       \E i \in 1..Len(MapRows), j \in 1..Len(MapRows) :
       \E l \in {norm01(RawMap(i, s[1], s[2]))},
          r \in {norm01(RawMap(j, s[1], s[2]))} :
       \E b \in RoiBoxes(s[1], s[2]), t \in {40, 70} :
          roi_call = [loc |-> l, rel |-> r, rel_min |-> t,
                      roi |-> [x |-> b[1], y |-> b[2], w |-> b[3], h |-> b[4]]]
    /\ roi_ret = None
    /\ BatchIdle
    /\ ResolverIdle
    /\ OcrIdle
    /\ BoxIdle
    /\ RestIdle

RoiAnomalyScore ==
    /\ roi_call # None
    /\ roi_ret = None
    /\ roi_ret' = roi_anomaly_score(roi_call.loc, roi_call.rel, roi_call.roi,
                                    roi_call.rel_min)
    /\ UNCHANGED roi_call
    /\ UNCHANGED <<batchVars, resolverVars, ocrVars, boxVars,
                   restVars>>

RoiNext == RoiAnomalyScore

RoiSpec == RoiInit /\ [][RoiNext]_vars

(***************************************************************************)
(* One call of clamp_box, or of save_crop, on integers drawn from bounded  *)
(* sets.                                                                   *)
(***************************************************************************)
MaxSide == 3      \* image width and height range over 1..MaxSide
MaxPad == 1       \* the pad of save_crop ranges over 0..MaxPad

BoxInit ==
    /\ box_call \in [x : -1..MaxSide, y : -1..MaxSide,
                      w : -1..(MaxSide + 1), h : -1..(MaxSide + 1),
                      W : 1..MaxSide, H : 1..MaxSide, pad : 0..MaxPad]
    /\ box_ret = None
    /\ BatchIdle
    /\ ResolverIdle
    /\ OcrIdle
    /\ RoiIdle
    /\ RestIdle

\* clamp_box(x, y, w, h, W, H)
ClampBox ==
    /\ box_call # None
    /\ box_ret = None
    /\ box_ret' = [fn  |-> "clamp_box",
                   box |-> clamp_box(box_call.x, box_call.y, box_call.w,
                                     box_call.h, box_call.W, box_call.H)]
    /\ UNCHANGED box_call
    /\ UNCHANGED <<batchVars, resolverVars, ocrVars, roiVars,
                   restVars>>

\* save_crop(img_bgr, roi, out_path, pad) on an (H, W) image
SaveCrop ==
    /\ box_call # None
    /\ box_ret = None
    /\ box_ret' = [fn  |-> "save_crop",
                   box |-> save_crop_box(<<box_call.H, box_call.W>>,
                                         [x |-> box_call.x, y |-> box_call.y,
                                          w |-> box_call.w, h |-> box_call.h],
                                         box_call.pad)]
    /\ UNCHANGED box_call
    /\ UNCHANGED <<batchVars, resolverVars, ocrVars, roiVars,
                   restVars>>

BoxNext == ClampBox \/ SaveCrop

BoxSpec == BoxInit /\ [][BoxNext]_vars

(***************************************************************************)
(* DecideSpec: the decision rule of analyze_image evaluated at two global  *)
(* scores g and g2, everything else fixed.                                 *)
(***************************************************************************)
CoreIdle ==
    /\ BatchIdle
    /\ ResolverIdle
    /\ OcrIdle
    /\ RoiIdle
    /\ BoxIdle

coreVars == <<batchVars, resolverVars, ocrVars, roiVars, boxVars>>

\* g, g2: float(score_arr), any float from -0.2 to 1.2 or not a number;
\* max_roi: 0.0 or a region score
DecideInit ==
    /\ dec_call \in [g : {Raw(v) : v \in -2..(One + 2)} \cup {NaN},
                     g2 : {Raw(v) : v \in -2..(One + 2)} \cup {NaN},
                     max_roi : {Raw(0), Raw(2), Raw(5), Raw(One)},
                     global_thresh : {0, 22, 50, 100},
                     roi_thresh : {0, 22, 60}]
    /\ dec_ret = None
    /\ CoreIdle
    /\ NormIdle
    /\ BestIdle
    /\ ParIdle
    /\ HiveIdle
    /\ SightIdle
    /\ RetryIdle

\* "status": "flagged" if flagged else "ok", at g and at g2
Decide ==
    /\ dec_call # None
    /\ dec_ret = None
    /\ dec_ret' =
          [at_g  |-> IF Flagged(dec_call.g, dec_call.max_roi,
                                dec_call.global_thresh, dec_call.roi_thresh)
                     THEN "flagged" ELSE "ok",
           at_g2 |-> IF Flagged(dec_call.g2, dec_call.max_roi,
                                dec_call.global_thresh, dec_call.roi_thresh)
                     THEN "flagged" ELSE "ok"]
    /\ UNCHANGED dec_call
    /\ UNCHANGED <<coreVars, normVars, bestVars, parVars, clientVars>>

DecideNext == Decide

DecideSpec == DecideInit /\ [][DecideNext]_vars

(***************************************************************************)
(* NormSpec: norm01 applied to a raw map, and again to its own output.     *)
(***************************************************************************)
MaxPixels == 25   \* maps of 1 x n pixels, n in 1..MaxPixels

\* the map of 1 x n pixels that starts with a, b, c and goes on with d,
\* the raw values being -0.5, 0.0, 2.5 and 4.4
NormInit ==
    /\ \E n \in 1..MaxPixels : \E a, b, c, d \in {-5, 0, 25, 44} :
           norm_call =
               [shape |-> <<1, n>>,
                data  |-> [j \in 1..n |-> IF j = 1 THEN a ELSE IF j = 2 THEN b
                                          ELSE IF j = 3 THEN c ELSE d]]
    /\ norm_ret = None
    /\ CoreIdle
    /\ DecideIdle
    /\ BestIdle
    /\ ParIdle
    /\ HiveIdle
    /\ SightIdle
    /\ RetryIdle

\* loc = norm01(loc), and norm01 of that result
Normalize ==
    /\ norm_call # None
    /\ norm_ret = None
    /\ \E once \in {norm01(norm_call)} :
           norm_ret' = [once |-> once, twice |-> norm01Scaled(once)]
    /\ UNCHANGED norm_call
    /\ UNCHANGED <<coreVars, decideVars, bestVars, parVars, clientVars>>

NormNext == Normalize

NormSpec == NormInit /\ [][NormNext]_vars

(***************************************************************************)
(* BestSpec: the loop of analyze_image that scores the regions of one      *)
(* image and keeps the best one.                                           *)
(***************************************************************************)
MaxRegions == 3   \* at most this many regions per image

\* regions of a 2 x 2 image: its four pixels, its top row, all of it
RegionBoxes ==
    {[x |-> 0, y |-> 0, w |-> 1, h |-> 1], [x |-> 1, y |-> 0, w |-> 1, h |-> 1],
     [x |-> 0, y |-> 1, w |-> 1, h |-> 1], [x |-> 1, y |-> 1, w |-> 1, h |-> 1],
     [x |-> 0, y |-> 0, w |-> 2, h |-> 1], [x |-> 0, y |-> 0, w |-> 2, h |-> 2]}

BestInit ==
    /\ \E i \in 1..Len(MapRows), j \in {1, 3} :
       \E l \in {norm01(RawMap(i, 2, 2))}, r \in {norm01(RawMap(j, 2, 2))} :
       \E n \in 0..MaxRegions : \E rs \in [1..n -> RegionBoxes] :
          best_call = [loc |-> l, rel |-> r, rois |-> rs, rel_min |-> 40]
    /\ best_ret = None
    /\ CoreIdle
    /\ DecideIdle
    /\ NormIdle
    /\ ParIdle
    /\ HiveIdle
    /\ SightIdle
    /\ RetryIdle

\* max_roi = 0.0; best_roi = None; for roi in rois: ...
ScoreRegions ==
    /\ best_call # None
    /\ best_ret = None
    /\ best_ret' = ScoreRois(best_call.rois, best_call.loc, best_call.rel,
                             best_call.rel_min, InitialBest)
    /\ UNCHANGED best_call
    /\ UNCHANGED <<coreVars, decideVars, normVars, parVars, clientVars>>

BestNext == ScoreRegions

BestSpec == BestInit /\ [][BestNext]_vars

(***************************************************************************)
(* ParSpec: two workers, each running analyze_image on an image of its     *)
(* own, with the same out_dir.  A worker's steps are the places where      *)
(* analyze_image touches out_dir: the model subprocess writes its bundle,  *)
(* run_trufor looks for the .npz file, load_trufor_outputs reads it.       *)
(***************************************************************************)
Workers == {1, 2}

\* the outcome of an analysis: what it raised, or the dictionary returned
Outcome(raised, error, res) == [raised |-> raised, error |-> error, res |-> res]

ParInit ==
    /\ \E t \in TruForSet, a \in ArgsSet :
       \E im \in [Workers -> {pA, pB, pC}], rn \in [Workers -> ModelRuns] :
          /\ im[1] # im[2]
          /\ workers = [w \in Workers |->
                           [image |-> im[w], run |-> rn[w], trufor |-> t,
                            args |-> a, pc |-> "start", npz_path |-> <<>>,
                            out |-> None]]
    /\ par_dir = {}
    /\ par_clock = 0
    /\ CoreIdle
    /\ DecideIdle
    /\ NormIdle
    /\ BestIdle
    /\ HiveIdle
    /\ SightIdle
    /\ RetryIdle

\* worker w ends with this outcome
Finish(w, out) == workers' = [workers EXCEPT ![w].pc = "done", ![w].out = out]

\* cv2.imread, find_trufor_infer_entrypoint and subprocess.run: the model
\* process writes its bundle into out_dir
Invoke(w) ==
    LET me == workers[w]
    IN /\ me.pc = "start"
       /\ IF IsNone(imread(me.image))
          THEN /\ Finish(w, Outcome(FALSE, Exc("", ""), UnreadableResult))
               /\ UNCHANGED <<par_dir, par_clock>>
          ELSE IF ~me.trufor.script
          THEN /\ Finish(w, Outcome(TRUE,
                                    Exc("FileNotFoundError",
                                        "Could not find TruFor inference script"),
                                    None))
               /\ UNCHANGED <<par_dir, par_clock>>
          ELSE IF me.run.ret # 0
          THEN /\ Finish(w, Outcome(TRUE,
                                    Exc("RuntimeError", "TruFor inference failed."),
                                    None))
               /\ UNCHANGED <<par_dir, par_clock>>
          ELSE /\ workers' = [workers EXCEPT ![w].pc = "ran"]
               /\ IF me.run.bundle = "none"
                  THEN UNCHANGED <<par_dir, par_clock>>
                  ELSE /\ par_dir' = WriteNpz(par_dir,
                                              OutputName(me.image, me.trufor.naming),
                                              me.run.bundle, par_clock + 1, w)
                       /\ par_clock' = par_clock + 1
       /\ UNCHANGED <<coreVars, decideVars, normVars, bestVars, clientVars>>

\* run_trufor after the subprocess: npz_path.exists(), else the newest .npz
Locate(w) ==
    LET me   == workers[w]
        path == NpzPath(me.image, par_dir)
    IN /\ me.pc = "ran"
       /\ IF path = <<>>
          THEN Finish(w, Outcome(TRUE,
                                 Exc("FileNotFoundError", "No .npz output found"),
                                 None))
          ELSE workers' = [workers EXCEPT ![w].pc = "located",
                                          ![w].npz_path = path]
       /\ UNCHANGED <<par_dir, par_clock>>
       /\ UNCHANGED <<coreVars, decideVars, normVars, bestVars, clientVars>>

\* load_trufor_outputs(npz_path, (H, W)), OCR, scoring and the decision
Load(w) ==
    LET me   == workers[w]
        img  == imread(me.image)
        file == FileNamed(par_dir, me.npz_path)
        o    == load_trufor_outputs(me.npz_path, BundleOf(file.bundle),
                                    img.shape[1], img.shape[2])
    IN /\ me.pc = "located"
       /\ IF ~o.ok
          THEN Finish(w, Outcome(TRUE, Exc(o.error.type, o.error.msg), None))
          ELSE Finish(w, Outcome(FALSE, Exc("", ""),
                                 Verdict(o,
                                         ocr_line_boxes(img.tokens,
                                                        me.args.min_conf,
                                                        me.args.min_size),
                                         me.args, me.npz_path)))
       /\ UNCHANGED <<par_dir, par_clock>>
       /\ UNCHANGED <<coreVars, decideVars, normVars, bestVars, clientVars>>

ParNext == \E w \in Workers : Invoke(w) \/ Locate(w) \/ Load(w)

ParSpec == ParInit /\ [][ParNext]_vars

(***************************************************************************)
(* HiveSpec: one call of submit_to_hive_sync                               *)
(* (src/17_hive_ai_generated_detection_check.py).  `hive` holds the        *)
(* arguments, the loop variables, the read position of the open image      *)
(* file and the log of the HTTP requests made.                             *)
(***************************************************************************)
MaxRetries == 2   \* max_retries ranges over 0..MaxRetries
MaxBytes == 2     \* the image file holds 1..MaxBytes bytes

\* what requests.post does: it raises a RequestException, before or after
\* it has read the file into the request body, or it returns a response
HttpOutcomes ==
    {[kind |-> "exception", read |-> r, status |-> 0, json |-> FALSE] :
        r \in BOOLEAN}
    \cup {[kind |-> "response", read |-> TRUE, status |-> s, json |-> FALSE] :
            s \in {200, 400, 401, 403, 429, 503}}
    \cup {[kind |-> "response", read |-> TRUE, status |-> 200, json |-> TRUE]}

HiveInit ==
    /\ hive \in [api_key_primary : {"", "k1"}, api_key_secondary : {"", "k2"},
                 max_retries : 0..MaxRetries, size : 1..MaxBytes,
                 pc : {"call"}, keys_to_try : {<<>>}, key_index : {0},
                 attempt : {0}, offset : {0}, sent : {<<>>},
                 last_err : {""}, last_http : {0}, ret : {None}]
    /\ CoreIdle
    /\ DecideIdle
    /\ NormIdle
    /\ BestIdle
    /\ ParIdle
    /\ SightIdle
    /\ RetryIdle

\* the statements before the loop over the keys
HiveEnter ==
    /\ hive # None
    /\ hive.pc = "call"
    /\ IF hive.api_key_primary = ""
       THEN hive' = [hive EXCEPT
                        !.pc = "done",
                        !.ret = [status |-> "error", http_status |-> 0,
                                 error |-> "Missing Hive API key"]]
       ELSE hive' = [hive EXCEPT
                        !.pc = "key",
                        !.keys_to_try =
                            <<hive.api_key_primary>>
                            \o (IF hive.api_key_secondary # ""
                                THEN <<hive.api_key_secondary>> ELSE <<>>),
                        !.key_index = 1,
                        !.last_err = "Unknown error"]
    /\ UNCHANGED <<coreVars, decideVars, normVars, bestVars, parVars, sight,
                   retry>>

\* one round of `for key_index, api_key in enumerate(keys_to_try, start=1)`:
\* image_path.open("rb"), which may raise
HiveOpenFile ==
    /\ hive # None
    /\ hive.pc = "key"
    /\ hive.key_index <= Len(hive.keys_to_try)
    /\ \/ hive' = [hive EXCEPT !.pc = "post", !.attempt = 0, !.offset = 0]
       \/ hive' = [hive EXCEPT !.pc = "raised"]
    /\ UNCHANGED <<coreVars, decideVars, normVars, bestVars, parVars, sight,
                   retry>>

\* one round of `for attempt in range(max_retries + 1)`: the request and
\* what follows from its outcome.  A `break` leaves the attempts of this
\* key and runs the `continue` of the key loop.
HivePost ==
    /\ hive # None
    /\ hive.pc = "post"
    /\ \E o \in HttpOutcomes :
         LET req    == [key |-> hive.key_index, attempt |-> hive.attempt,
                        from |-> hive.offset, kind |-> o.kind,
                        status |-> o.status]
             offset == IF o.read THEN hive.size ELSE hive.offset
             again  == [hive EXCEPT !.sent = Append(@, req),
                                    !.offset = offset,
                                    !.attempt = @ + 1]
             break  == [hive EXCEPT !.sent = Append(@, req),
                                    !.offset = offset,
                                    !.key_index = @ + 1,
                                    !.pc = "key"]
             http   == IF o.kind = "exception" THEN 0 ELSE o.status
         IN IF o.kind = "exception"
            THEN hive' = [(IF hive.attempt < hive.max_retries
                           THEN again ELSE break)
                          EXCEPT !.last_err = "Request error",
                                 !.last_http = http]
            ELSE IF o.status \in {401, 403}
            THEN hive' = [break EXCEPT !.last_err = "Auth failed",
                                       !.last_http = http]
            ELSE IF o.status \in {429, 500, 502, 503, 504}
            THEN hive' = [(IF hive.attempt < hive.max_retries
                           THEN again ELSE break)
                          EXCEPT !.last_err = "Transient HTTP",
                                 !.last_http = http]
            ELSE IF o.status # 200
            THEN hive' = [break EXCEPT !.last_err = "HTTP",
                                       !.last_http = http]
            ELSE IF ~o.json
            THEN hive' = [break EXCEPT !.last_err = "Non-JSON response",
                                       !.last_http = http]
            ELSE hive' = [hive EXCEPT
                             !.sent = Append(@, req),
                             !.offset = offset,
                             !.last_http = http,
                             !.pc = "done",
                             !.ret = [status |-> "ok", http_status |-> http,
                                      error |-> ""]]
    /\ UNCHANGED <<coreVars, decideVars, normVars, bestVars, parVars, sight,
                   retry>>

\* the return after the loop over the keys
HiveReturnError ==
    /\ hive # None
    /\ hive.pc = "key"
    /\ hive.key_index > Len(hive.keys_to_try)
    /\ hive' = [hive EXCEPT
                   !.pc = "done",
                   !.ret = [status |-> "error", http_status |-> hive.last_http,
                            error |-> hive.last_err]]
    /\ UNCHANGED <<coreVars, decideVars, normVars, bestVars, parVars, sight,
                   retry>>

HiveNext == HiveEnter \/ HiveOpenFile \/ HivePost \/ HiveReturnError

HiveSpec == HiveInit /\ [][HiveNext]_vars

(***************************************************************************)
(* SightSpec: one call of detect_ai_generated                              *)
(* (src/17_sightengine_ai_detection.py).                                   *)
(***************************************************************************)
\* one round of the attempt loop: image_path.open raises, requests.post
\* raises a RequestException, or a response arrives.  The body of a
\* response is "text" (no JSON), "success" or "failure" (a JSON object,
\* told apart by its status) or "other" (JSON that is no object: .get
\* raises AttributeError)
SightOutcomes ==
    {[kind |-> "open raises", status |-> 0, body |-> ""],
     [kind |-> "exception", status |-> 0, body |-> ""]}
    \cup {[kind |-> "response", status |-> s, body |-> "text"] :
            s \in {400, 401, 403, 429, 500, 503}}
    \cup {[kind |-> "response", status |-> 200, body |-> b] :
            b \in {"text", "success", "failure", "other"}}

SightInit ==
    /\ sight \in [api_user : {"", "u"}, api_secret : {"", "s"},
                  max_retries : 0..MaxRetries, pc : {"call"}, attempt : {0},
                  sent : {<<>>}, last_err : {""}, last_http : {0},
                  ret : {None}]
    /\ CoreIdle
    /\ DecideIdle
    /\ NormIdle
    /\ BestIdle
    /\ ParIdle
    /\ HiveIdle
    /\ RetryIdle

\* the statements before the attempt loop
SightEnter ==
    /\ sight # None
    /\ sight.pc = "call"
    /\ IF sight.api_user = "" \/ sight.api_secret = ""
       THEN sight' = [sight EXCEPT
                         !.pc = "done",
                         !.ret = [status |-> "error", http_status |-> 0,
                                  error |-> "Missing Sightengine credentials"]]
       ELSE sight' = [sight EXCEPT !.pc = "attempt",
                                   !.last_err = "Unknown error"]
    /\ UNCHANGED <<coreVars, decideVars, normVars, bestVars, parVars, hive,
                   retry>>

\* one round of `for attempt in range(max_retries + 1)`; a `break` goes to
\* the return after the loop
SightAttempt ==
    /\ sight # None
    /\ sight.pc = "attempt"
    /\ \E o \in SightOutcomes :
         LET req    == [attempt |-> sight.attempt, kind |-> o.kind,
                        status |-> o.status, body |-> o.body]
             with   == [sight EXCEPT !.sent = Append(@, req)]
             again(err, http) ==
                 [with EXCEPT !.attempt = @ + 1, !.last_err = err,
                              !.last_http = http]
             break(err, http) ==
                 [with EXCEPT !.pc = "done", !.last_err = err,
                              !.last_http = http,
                              !.ret = [status |-> "error",
                                       http_status |-> http, error |-> err]]
             retry_or_break(err, http) ==
                 IF sight.attempt < sight.max_retries
                 THEN again(err, http) ELSE break(err, http)
             return(status, err) ==
                 [with EXCEPT !.pc = "done", !.last_http = o.status,
                              !.ret = [status |-> status,
                                       http_status |-> o.status,
                                       error |-> err]]
         IN IF o.kind = "open raises"
            THEN sight' = [sight EXCEPT !.pc = "raised",
                                        !.last_err = "OSError"]
            ELSE IF o.kind = "exception"
            THEN sight' = retry_or_break("Request error", 0)
            ELSE IF o.status = 429
            THEN sight' = retry_or_break("Rate limited (HTTP 429)", o.status)
            ELSE IF o.status \in {500, 502, 503, 504}
            THEN sight' = retry_or_break("Transient HTTP", o.status)
            ELSE IF o.status \in {401, 403}
            THEN sight' = break("Auth failed", o.status)
            ELSE IF o.status # 200
            THEN sight' = break("HTTP", o.status)
            ELSE IF o.body = "text"
            THEN sight' = break("Non-JSON response (HTTP 200)", o.status)
            ELSE IF o.body = "other"
            THEN sight' = [with EXCEPT !.pc = "raised",
                                       !.last_http = o.status,
                                       !.last_err = "AttributeError"]
            ELSE IF o.body = "failure"
            THEN sight' = return("error", "API error")
            ELSE sight' = return("ok", "")
    /\ UNCHANGED <<coreVars, decideVars, normVars, bestVars, parVars, hive,
                   retry>>

SightNext == SightEnter \/ SightAttempt

SightSpec == SightInit /\ [][SightNext]_vars

(***************************************************************************)
(* RetrySpec: one call of with_retry (src/11_auto_validate.py).  `retry`   *)
(* holds the arguments, the loop variable, last_error and the log of the   *)
(* calls of func and of time.sleep.                                        *)
(***************************************************************************)
MaxTries == 3     \* tries ranges over 0..MaxTries

\* what a call of func does: it returns a value, raises an Exception, or
\* raises a BaseException that `except Exception` does not catch
FuncOutcomes ==
    {[kind |-> "returns", value |-> v] : v \in {"r1", "r2"}}
    \cup {[kind |-> "raises", value |-> e] : e \in {"HTTPError", "Timeout"}}
    \cup {[kind |-> "interrupts", value |-> "KeyboardInterrupt"]}

\* min(max_sleep, base_sleep * (2 ** attempt))
\*     + (0.5 * (1 if attempt % 2 == 0 else -1)), in half seconds
sleep_time(attempt, base_sleep, max_sleep) ==
    Min2(max_sleep, base_sleep * (2 ^ attempt))
        + (IF attempt % 2 = 0 THEN 1 ELSE -1)

\* variant: the sleep follows every failed attempt
SleepsAfterEveryFailure(attempt, tries) == TRUE

\* `if attempt < tries - 1`
SleepsBetweenAttempts(attempt, tries) == attempt < tries - 1

RetryInit ==
    /\ retry \in [tries : 0..MaxTries, base_sleep : {4}, max_sleep : {6, 60},
                  pc : {"loop"}, attempt : {0}, log : {<<>>},
                  last_error : {"None"}, ret : {None}]
    /\ CoreIdle
    /\ DecideIdle
    /\ NormIdle
    /\ BestIdle
    /\ ParIdle
    /\ HiveIdle
    /\ SightIdle

\* one round of `for attempt in range(tries)`
RetryAttempt ==
    /\ retry # None
    /\ retry.pc = "loop"
    /\ retry.attempt < retry.tries
    /\ \E o \in FuncOutcomes :
         LET call  == [event |-> "call", attempt |-> retry.attempt,
                       kind |-> o.kind, value |-> o.value]
             sleep == [event |-> "sleep", attempt |-> retry.attempt,
                       kind |-> "",
                       value |-> sleep_time(retry.attempt, retry.base_sleep,
                                            retry.max_sleep)]
         IN IF o.kind = "returns"
            THEN retry' = [retry EXCEPT
                              !.log = Append(@, call),
                              !.pc = "returned",
                              !.ret = [kind |-> "value", value |-> o.value]]
            ELSE IF o.kind = "interrupts"
            THEN retry' = [retry EXCEPT
                              !.log = Append(@, call),
                              !.pc = "raised",
                              !.ret = [kind |-> "error", value |-> o.value]]
            ELSE retry' = [retry EXCEPT
                              !.log = IF SleepsBetweenAttempts(retry.attempt,
                                                               retry.tries)
                                      THEN @ \o <<call, sleep>>
                                      ELSE Append(@, call),
                              !.last_error = o.value,
                              !.attempt = @ + 1]
    /\ UNCHANGED <<coreVars, decideVars, normVars, bestVars, parVars, hive,
                   sight>>

\* `raise last_error` after the loop; raising None is a TypeError
RetryRaise ==
    /\ retry # None
    /\ retry.pc = "loop"
    /\ retry.attempt >= retry.tries
    /\ retry' = [retry EXCEPT
                    !.pc = "raised",
                    !.ret = [kind |-> "error",
                             value |-> IF retry.last_error = "None"
                                       THEN "TypeError"
                                       ELSE retry.last_error]]
    /\ UNCHANGED <<coreVars, decideVars, normVars, bestVars, parVars, hive,
                   sight>>

RetryNext == RetryAttempt \/ RetryRaise

RetrySpec == RetryInit /\ [][RetryNext]_vars

(***************************************************************************)
(* Properties of the batch run.                                            *)
(***************************************************************************)
RowIds == 1..Len(rows)

\* x >= t / 100 for a score x, written out
AtLeast(x, t) == x.d > 0 /\ x.n * 100 >= t * x.d

\* a report row of an image that was read, run, resolved and OCR'd
Analysed(k) == trace[k].stage = "return"

\* C1: an image read, run through the model, resolved and OCR'd without
\* failure is "flagged" exactly when its global score is at least the global
\* threshold or its maximum region score is at least the ROI threshold, and
\* "ok" otherwise.
C1_DecisionRule ==
    \A k \in RowIds :
        Analysed(k) =>
            /\ rows[k].status \in {"ok", "flagged"}
            /\ rows[k].status = "flagged" <=>
                   \/ AtLeast(rows[k].trufor_score, args.global_thresh)
                   \/ AtLeast(rows[k].max_roi_score, args.roi_thresh)

\* C1 witness: one image flagged by the ROI path alone, another found ok
\* although it has regions.
C1_Witness ==
    /\ \E k \in RowIds :
          /\ Analysed(k)
          /\ rows[k].status = "flagged"
          /\ ~AtLeast(rows[k].trufor_score, args.global_thresh)
    /\ \E k \in RowIds :
          Analysed(k) /\ rows[k].status = "ok" /\ rows[k].n_rois > 0

\* an analysed image without candidate regions
NoRegions(k) == Analysed(k) /\ rows[k].n_rois = 0

\* C2 as stated: with zero regions the maximum region score is 0 and, for
\* every threshold configuration, the image is flagged exactly when the
\* global score reaches the global threshold.
C2_ZeroRegionsAnyThreshold ==
    \A k \in RowIds :
        NoRegions(k) =>
            /\ rows[k].max_roi_score = Frac(0, 1)
            /\ rows[k].status = "flagged" <=>
                   AtLeast(rows[k].trufor_score, args.global_thresh)

\* C2 amended: with zero regions the maximum region score is 0 and, for
\* every configuration whose ROI threshold is above 0, the image is flagged
\* exactly when the global score reaches the global threshold.
C2_ZeroRegionsPositiveThreshold ==
    \A k \in RowIds :
        NoRegions(k) =>
            /\ rows[k].max_roi_score = Frac(0, 1)
            /\ args.roi_thresh > 0 =>
                   (rows[k].status = "flagged" <=>
                        AtLeast(rows[k].trufor_score, args.global_thresh))

\* C2 witness: a region-less image flagged by the global path and a
\* region-less image found ok, under a positive ROI threshold.
C2_Witness ==
    /\ args.roi_thresh > 0
    /\ \E k \in RowIds : NoRegions(k) /\ rows[k].status = "flagged"

\* the three failures of C3, told from the world and not from the code path
Unreadable(t) == Exists(t.image) /\ imread(t.image) = None

ModelFailed(t) ==
    /\ Exists(t.image)
    /\ imread(t.image) # None
    /\ (~trufor.script \/ t.ret = 1)

RoleMissing(bundle, H, W) ==
    \/ ~\E i \in 1..Len(bundle) : Prod(bundle[i].arr.shape) = 1
    \/ ~\E i \in 1..Len(bundle) :
          LET sh == bundle[i].arr.shape
          IN \/ sh = <<H, W>>
             \/ Len(sh) = 3 /\ <<sh[2], sh[3]>> = <<H, W>>
             \/ Len(sh) = 3 /\ <<sh[1], sh[2]>> = <<H, W>>

ResolverFailed(t) ==
    /\ t.file # <<>>
    /\ RoleMissing(BundleOf(t.bundle), imread(t.image).shape[1],
                   imread(t.image).shape[2])

RECURSIVE CellsFrom(_, _)
CellsFrom(i, c) ==
    IF i > Len(df) THEN <<>>
    ELSE IF c > Len(PathCols) THEN CellsFrom(i + 1, 1)
    ELSE (IF IsNaN(df[i].cells[c]) THEN <<>>
          ELSE <<[task_id |-> df[i].task_id, image_col |-> PathCols[c],
                  image_path |-> df[i].cells[c]]>>)
         \o CellsFrom(i, c + 1)

\* `report` holds one row for each of the first Len(report) non-empty
\* cells, in loop order
RowsInOrder(report) ==
    LET want == CellsFrom(1, 1)
    IN /\ Len(report) <= Len(want)
       /\ \A k \in 1..Len(report) :
             /\ report[k].task_id = want[k].task_id
             /\ report[k].image_col = want[k].image_col
             /\ report[k].image_path = want[k].image_path

\* the loop has a next step: a cell to skip, a missing file to report, an
\* image to analyse, or the report to save
CanStep ==
    \/ InLoop /\ IsNaN(Cell)
    \/ InLoop /\ ~IsNaN(Cell) /\ FileMissing(Cell)
    \/ InLoop /\ ~IsNaN(Cell) /\ ~FileMissing(Cell)
    \/ pc = "loop" /\ pos[1] > Len(df)

RowsOfCall(c) == {k \in RowIds : trace[k].call = c}

C5_MissingFile ==
    /\ \A k \in RowIds :
          ~Exists(rows[k].image_path) =>
              rows[k].status = "error" /\ rows[k].error = "File not found"
    /\ \A c \in 1..Len(calls) : Exists(calls[c])

\* C5 witness: a report with a missing file after an image the model ran on.
C5_Witness ==
    /\ calls # <<>>
    /\ \E k \in RowIds : ~Exists(rows[k].image_path)

\* C6 as stated: an image whose model run failed or wrote no bundle gets
\* status "error", wherever it stands in the batch.
C6_NoOutputIsError ==
    \A k \in RowIds :
        (trace[k].call > 0 /\ (trace[k].ret # 0 \/ trace[k].wrote = "none"))
            => rows[k].status = "error"

\* C7 as stated: the bundle an analysis resolves was written by the model
\* run made for that analysis.
C7_OwnBundle ==
    \A k \in RowIds : trace[k].file # <<>> => trace[k].writer = trace[k].call

\* the OCR engine failed on an image that was read, run and resolved
OcrFailed(t) == t.stage = "ocr_line_boxes"

\* C12 as stated: an image on which the OCR engine fails still gets the
\* verdict "ok" or "flagged", with region count 0, and not "error".
C12_OcrFailureIsZeroRegions ==
    \A k \in RowIds :
        OcrFailed(trace[k]) =>
            rows[k].status \in {"ok", "flagged"} /\ rows[k].n_rois = 0

\* the report row a step appends
LastRow == rows'[Len(rows')]

\* C18: a step that reports an image as "ok" or "error", or as "flagged"
\* without a best region, leaves the crops directory as it was.
C18_NoCropWithoutRegion ==
    [][(Len(rows') > Len(rows)
        /\ (LastRow.status \in {"ok", "error"} \/ LastRow.best_roi_text = <<>>))
          => crops_dir' = crops_dir]_vars

\* C18 witness: after an image whose crop was written, an image flagged
\* without a best region and the one crop still alone in the directory.
C18_Witness ==
    /\ Len(rows) = 2
    /\ rows[1].crop_path # <<>>
    /\ rows[2].status = "flagged"
    /\ rows[2].best_roi_text = <<>>
    /\ crops_dir # {}
    /\ \A c \in crops_dir : c.name = rows[1].crop_path

\* C19 as stated: a flagged image with at least one candidate region has a
\* best region in its row and its evidence crop in the crops directory.
C19_FlaggedRegionHasCrop ==
    \A k \in RowIds :
        (rows[k].status = "flagged" /\ rows[k].n_rois >= 1) =>
            /\ rows[k].best_roi_text # <<>>
            /\ rows[k].crop_path # <<>>
            /\ Cardinality({c \in crops_dir : c.name = rows[k].crop_path}) = 1

(***************************************************************************)
(* Properties of the resolver.                                             *)
(***************************************************************************)
\* the bundle has an entry of one element
HasScalar == \E i \in 1..Len(npz) : Prod(npz[i].arr.shape) = 1

\* the bundle has an entry of shape (H, W), (C, H, W) or (H, W, C)
HasMap ==
    \E i \in 1..Len(npz) :
        LET sh == npz[i].arr.shape
        IN \/ sh = img_shape
           \/ Len(sh) = 3 /\ <<sh[2], sh[3]>> = img_shape
           \/ Len(sh) = 3 /\ <<sh[1], sh[2]>> = img_shape

\* no key holds a reliability token
NoReliabilityKey ==
    \A i \in 1..Len(npz) :
        TokensIn(npz[i].key) \cap {"reliab", "conf", "uncert"} = {}

AllOnes(m) == \A j \in 1..Len(m.data) : m.data[j] = m.den

\* C8 as stated: a bundle with a resolvable score and localization map and
\* no reliability key resolves, with the all-ones reliability map of shape
\* (H, W).
C8_DefaultReliability ==
    (rpc = "done" /\ HasScalar /\ HasMap /\ NoReliabilityKey) =>
        /\ outs.ok
        /\ outs.rel.shape = img_shape
        /\ AllOnes(outs.rel)

\* the names a message could give a role
RoleNames(role) ==
    IF role = "score" THEN {"score"}
    ELSE {"loc", "localization", "localizationMap"}

C10_MapShapes ==
    (rpc = "done" /\ HasScalar /\ HasMap) =>
        /\ outs.ok
        /\ outs.loc.shape = img_shape
        /\ outs.rel.shape = img_shape
        /\ Len(outs.loc.data) = img_shape[1] * img_shape[2]
        /\ Len(outs.rel.data) = img_shape[1] * img_shape[2]

\* C10 witness: a resolved bundle whose only map is channel-last, for an
\* image that is not square.
C10_Witness ==
    /\ rpc = "done"
    /\ outs.ok
    /\ img_shape[1] # img_shape[2]
    /\ \E i \in 1..Len(npz) : npz[i].arr.shape = img_shape \o <<MaxChan>>
    /\ \A i \in 1..Len(npz) :
          Len(npz[i].arr.shape) \in {0, 3}
          /\ (Len(npz[i].arr.shape) = 3 =>
                 SubSeq(npz[i].arr.shape, 1, 2) = img_shape)

\* C22: the score of every bundle the resolver accepts lies in [0, 1],
\* whatever the range of the size-1 entry it picks.
C22_ScoreInUnitInterval ==
    (rpc = "done" /\ outs.ok) => (0 <= outs.score /\ outs.score <= One)

\* whether entry i of the bundle has a shape the role can take
Fits(i, want) ==
    LET sh == npz[i].arr.shape
    IN IF want = "score" THEN Prod(sh) = 1
       ELSE \/ sh = img_shape
            \/ Len(sh) = 3 /\ <<sh[2], sh[3]>> = img_shape
            \/ Len(sh) = 3 /\ <<sh[1], sh[2]>> = img_shape

\* how many tokens of the role's priority list come before the first one
\* the key contains; the length of the list when it contains none
TokensBefore(key, want) ==
    LET pr == name_priority(want)
    IN Cardinality({i \in 1..Len(pr) :
                      \A j \in 1..i : pr[j] \notin TokensIn(key)})

\* entry i beats entry j for the role: an earlier token, or the same and
\* an earlier place in the bundle
Beats(i, j, want) ==
    LET ri == TokensBefore(npz[i].key, want)
        rj == TokensBefore(npz[j].key, want)
    IN ri < rj \/ (ri = rj /\ i <= j)

\* the entry the role should take
Winner(want) ==
    CHOOSE i \in 1..Len(npz) :
        Fits(i, want) /\ \A j \in 1..Len(npz) : Fits(j, want) => Beats(i, j, want)

\* C11: for each role the resolver returns the shape-compatible entry whose
\* key holds the earliest token of the role's priority list; entries whose
\* key holds no token come last; among entries of equal rank the first in
\* bundle order wins.
C11_RankedPick ==
    (rpc = "done" /\ outs.ok) =>
        /\ outs.score = npz[Winner("score")].arr.data[1]
        /\ outs.loc = norm01(MapView(npz[Winner("loc")].arr, img_shape[1],
                                     img_shape[2]))
        /\ outs.rel = norm01(MapView(npz[Winner("rel")].arr, img_shape[1],
                                     img_shape[2]))

\* C11 witness: a resolved bundle of an image that is not square, in which
\* the localization map is not the first fitting entry (a later key holds
\* an earlier token), the same entry is the reliability map, and the score
\* is the only entry of one element.
C11_Witness ==
    /\ rpc = "done"
    /\ outs.ok
    /\ img_shape = <<1, 2>>
    /\ Len(npz) = 3
    /\ npz[1].key = "pred_mask" /\ Fits(1, "loc")
    /\ npz[2].key = "conf_map" /\ Fits(2, "loc")
    /\ npz[3].key = "sigmoid" /\ Fits(3, "score")
    /\ Winner("loc") = 2
    /\ Winner("rel") = 2
    /\ Winner("score") = 3

(***************************************************************************)
(* Properties of the OCR region extractor.                                 *)
(***************************************************************************)
\* the regions returned
Regions == ocr_ret.boxes

\* the line keys among the tokens that satisfy P
LinesWith(P(_)) ==
    {ocr_call.tokens[i].line : i \in {j \in 1..Len(ocr_call.tokens) :
                                         P(ocr_call.tokens[j])}}

\* a token that was read with text and with enough confidence
Read(t) == Strip(t.text) # "" /\ t.conf >= ocr_call.min_conf

\* C13: every region the extractor returns has a word with a digit in its
\* text, and there are no more regions than lines with such a word: a line
\* without a digit yields no region.
C13_DigitLinesOnly ==
    ocr_ret # None =>
        /\ \A k \in 1..Len(Regions) :
              \E j \in 1..Len(Regions[k].text) :
                  Regions[k].text[j] \in {"7h", "35m", "2"}
        /\ Len(Regions) <=
              Cardinality(LinesWith(LAMBDA t : Read(t) /\ t.text \in {"7h", "2"}))

\* C13 witness: three tokens on two lines, one line of plain words and one
\* of a digit word and a plain word, and one region returned.
C13_Witness ==
    /\ ocr_ret # None
    /\ Len(ocr_call.tokens) = 3
    /\ ocr_call.tokens[1].text = "Time" /\ ocr_call.tokens[1].line = <<1, 1, 1>>
    /\ ocr_call.tokens[2].text = "7h" /\ ocr_call.tokens[2].line = <<1, 1, 2>>
    /\ ocr_call.tokens[3].text = "Time" /\ ocr_call.tokens[3].line = <<1, 1, 2>>
    /\ Len(Regions) = 1
    /\ Regions[1].text = <<"7h", "Time">>

\* the tokens of line l that were read, in encounter order
Members(l) == SelectSeq(ocr_call.tokens, LAMBDA t : t.line = l /\ Read(t))

MinOf(S) == CHOOSE v \in S : \A u \in S : v <= u

MaxOf(S) == CHOOSE v \in S : \A u \in S : v >= u

\* the one region of line l: the union box, the texts in order, the mean
\* confidence
Merged(l) ==
    LET m  == Members(l)
        I  == 1..Len(m)
        x1 == MinOf({m[i].left : i \in I})
        y1 == MinOf({m[i].top : i \in I})
        x2 == MaxOf({m[i].left + m[i].width : i \in I})
        y2 == MaxOf({m[i].top + m[i].height : i \in I})
    IN [x |-> x1, y |-> y1, w |-> x2 - x1, h |-> y2 - y1,
        text |-> [i \in I |-> m[i].text],
        conf |-> Frac(SumSeq([i \in I |-> m[i].conf]), Len(m))]

\* the merged region of line l is digit-bearing and large enough
Kept(l) ==
    /\ \E i \in 1..Len(Members(l)) : Members(l)[i].text \in {"7h", "2"}
    /\ Merged(l).w >= ocr_call.min_size
    /\ Merged(l).h >= ocr_call.min_size

\* C14 as stated: each line's tokens with text and enough confidence are
\* merged into exactly one region (texts in order, union box, mean
\* confidence), and the size threshold is applied to the merged region
\* only.
C14_WholeLineMerged ==
    ocr_ret # None =>
        /\ {Regions[k] : k \in 1..Len(Regions)} =
              {Merged(l) : l \in {u \in LinesWith(Read) : Kept(u)}}
        /\ Len(Regions) = Cardinality({u \in LinesWith(Read) : Kept(u)})

(***************************************************************************)
(* Properties of the ROI scorer.                                           *)
(***************************************************************************)
\* the clamped box of the call
Clamped ==
    clamp_box(roi_call.roi.x, roi_call.roi.y, roi_call.roi.w, roi_call.roi.h,
              roi_call.loc.shape[2], roi_call.loc.shape[1])

\* the pixels of the clamped box, as indices into the maps' data
CropPixels ==
    LET b == Clamped
        W == roi_call.loc.shape[2]
    IN [k \in 1..(b[3] * b[4]) |->
           (b[2] + ((k - 1) \div b[3])) * W + b[1] + ((k - 1) % b[3]) + 1]

\* the pixels of the crop whose reliability is at least relMin
ReliablePixels ==
    {k \in 1..Len(CropPixels) :
        roi_call.rel.data[CropPixels[k]] * 100
            >= roi_call.rel_min * roi_call.rel.den}

\* at least 15% of the crop is reliable
Covered == 100 * Cardinality(ReliablePixels) >= 15 * Len(CropPixels)

\* the mean over the crop of localization x mask
MaskedMean ==
    Lowest(SumSeq([k \in 1..Len(CropPixels) |->
                      IF k \in ReliablePixels
                      THEN roi_call.loc.data[CropPixels[k]] ELSE 0]),
           Len(CropPixels) * roi_call.loc.den)

\* 0.25 x the mean over the crop of localization x reliability
QuarterProductMean ==
    Lowest(SumSeq([k \in 1..Len(CropPixels) |->
                      roi_call.loc.data[CropPixels[k]]
                          * roi_call.rel.data[CropPixels[k]]]),
           4 * Len(CropPixels) * roi_call.loc.den * roi_call.rel.den)

C16_ScoreInUnitInterval ==
    roi_ret # None =>
        roi_ret.d > 0 /\ 0 <= roi_ret.n /\ roi_ret.n <= roi_ret.d

\* C16 witness: a box of width 0 wholly to the right of and above the
\* image, scored 1.
C16_Witness ==
    /\ roi_ret # None
    /\ roi_call.roi.x >= roi_call.loc.shape[2]
    /\ roi_call.roi.y < 0
    /\ roi_call.roi.w = 0
    /\ roi_ret = Frac(1, 1)

(***************************************************************************)
(* Properties of clamp_box and save_crop.                                  *)
(***************************************************************************)
\* C17: for all integers x, y, w, h and every image size W, H >= 1,
\* clamp_box returns a box with 0 <= x' < W, 0 <= y' < H, w' >= 1,
\* h' >= 1, x' + w' <= W and y' + h' <= H.
C17_ClampedBoxInImage ==
    (box_ret # None /\ box_ret.fn = "clamp_box") =>
        LET b == box_ret.box
        IN /\ 0 <= b[1] /\ b[1] < box_call.W
           /\ 0 <= b[2] /\ b[2] < box_call.H
           /\ b[3] >= 1 /\ b[4] >= 1
           /\ b[1] + b[3] <= box_call.W
           /\ b[2] + b[4] <= box_call.H

\* C17 witness: clamp_box called on a box right of and above the image,
\* of negative width and of more than the image's height.
C17_Witness ==
    /\ box_ret # None
    /\ box_ret.fn = "clamp_box"
    /\ box_call.x >= box_call.W
    /\ box_call.y < 0
    /\ box_call.w < 0
    /\ box_call.h > box_call.H

\* the box of the call is a region inside the image
RegionInImage ==
    /\ 0 <= box_call.x /\ 1 <= box_call.w
    /\ box_call.x + box_call.w <= box_call.W
    /\ 0 <= box_call.y /\ 1 <= box_call.h
    /\ box_call.y + box_call.h <= box_call.H

\* C20 as stated: the crop of a region is the intersection of
\* [x - pad, x + w + pad) x [y - pad, y + h + pad) with the image, wherever
\* the region lies.
C20_SymmetricPad ==
    (box_ret # None /\ box_ret.fn = "save_crop" /\ RegionInImage) =>
        LET x0 == Max2(0, box_call.x - box_call.pad)
            y0 == Max2(0, box_call.y - box_call.pad)
            x1 == Min2(box_call.W, box_call.x + box_call.w + box_call.pad)
            y1 == Min2(box_call.H, box_call.y + box_call.h + box_call.pad)
        IN box_ret.box = <<x0, y0, x1 - x0, y1 - y0>>

(***************************************************************************)
(* Properties of the decision rule.                                        *)
(***************************************************************************)
\* g2 >= g as floats compare: false when either is not a number
NotBelow(g2, g) == g.d > 0 /\ g2.d > 0 /\ g2.n * g.d >= g.n * g2.d

\* C21: with maxRegionScore, roiThresh and globalThresh fixed, an image that
\* is flagged at global score g is flagged at every g2 >= g, and a global
\* score raised from below globalThresh to at or above it gives "flagged".
C21_DecisionMonotone ==
    dec_ret # None =>
        /\ (NotBelow(dec_call.g2, dec_call.g) /\ dec_ret.at_g = "flagged")
               => dec_ret.at_g2 = "flagged"
        /\ (/\ dec_call.g.d > 0
            /\ ~AtLeast(dec_call.g, dec_call.global_thresh)
            /\ AtLeast(dec_call.g2, dec_call.global_thresh))
               => dec_ret.at_g2 = "flagged"

\* an image that is ok below globalThresh and flagged once g reaches it
C21_Witness ==
    /\ dec_ret # None
    /\ dec_call.g.d > 0
    /\ ~AtLeast(dec_call.g, dec_call.global_thresh)
    /\ dec_call.g2.d > 0
    /\ dec_call.g2.n * 100 = dec_call.global_thresh * dec_call.g2.d
    /\ dec_ret.at_g = "ok"
    /\ dec_ret.at_g2 = "flagged"

(***************************************************************************)
(* Properties of norm01.                                                   *)
(***************************************************************************)
\* pixel j of a normalised map in thousandths, rounded down
PerMille(m, j) == (m.data[j] * 1000) \div m.den

\* C23: normalising a map that is already the output of the normalisation
\* returns it within a small tolerance (here 0.05), for every input map.
C23_NormIdempotent ==
    norm_ret # None =>
        \A j \in 1..Len(norm_call.data) :
            /\ PerMille(norm_ret.twice, j) - PerMille(norm_ret.once, j) <= 50
            /\ PerMille(norm_ret.once, j) - PerMille(norm_ret.twice, j) <= 50

(***************************************************************************)
(* Properties of the region scoring loop.                                  *)
(***************************************************************************)
\* the score of region k of the call
RegionScore(k) ==
    roi_anomaly_score(best_call.loc, best_call.rel, best_call.rois[k],
                      best_call.rel_min)

RegionIds == 1..Len(best_call.rois)

\* the regions whose score is the reported maximum
Attaining == {k \in RegionIds : RegionScore(k) = best_ret.max_roi}

\* C26: after the loop max_roi_score is the maximum of the region scores (0
\* when there are none), best_roi is the first region in extraction order
\* that attains it, and best_roi is none exactly when no region scores
\* above 0.
C26_BestRegion ==
    best_ret # None =>
        /\ \A k \in RegionIds : ~FracGt(RegionScore(k), best_ret.max_roi)
        /\ best_ret.max_roi = Frac(0, 1) \/ Attaining # {}
        /\ best_ret.best_roi = None
              <=> \A k \in RegionIds : ~FracGt(RegionScore(k), Frac(0, 1))
        /\ best_ret.best_roi # None =>
              /\ Attaining # {}
              /\ \E k \in Attaining :
                    /\ \A j \in Attaining : k <= j
                    /\ best_ret.best_roi = best_call.rois[k]

\* C26 witness: two different regions attain the maximum and a third
\* scores less; the first of the two is the best region.
C26_Witness ==
    /\ best_ret # None
    /\ best_ret.best_roi # None
    /\ \E j, k \in Attaining :
          /\ j < k
          /\ best_call.rois[j] # best_call.rois[k]
          /\ best_ret.best_roi = best_call.rois[j]
    /\ \E k \in RegionIds : FracGt(best_ret.max_roi, RegionScore(k))

(***************************************************************************)
(* Properties of concurrent analyses.                                      *)
(***************************************************************************)
\* the outcome of worker w's analysis when it runs alone on the out_dir
\* the workers started with
Alone(w) ==
    LET me == workers[w]
        an == analyze_image(me.trufor, me.image, {}, me.run, 1, w, me.args,
                            "reads")
    IN Outcome(an.raised, an.error, an.res)

\* C25: with two workers on one output directory each analysis ends with
\* the outcome it has when it runs alone, under every interleaving.
C25_IndependentAnalyses ==
    \A w \in Workers : workers[w].pc = "done" => workers[w].out = Alone(w)

(***************************************************************************)
(* Properties of submit_to_hive_sync.                                      *)
(***************************************************************************)
SentIds == 1..Len(hive.sent)

\* the last request made with the primary key
LastPrimary == CHOOSE i \in SentIds :
                  /\ hive.sent[i].key = 1
                  /\ \A j \in SentIds : hive.sent[j].key = 1 => j <= i

\* C27: a request carries the secondary key only after the primary key was
\* rejected with HTTP 401 or 403; after any other failure of the primary
\* key the call returns the error without using the secondary key.
C27_SecondaryOnlyAfterAuthFailure ==
    hive # None =>
        \A i \in SentIds :
            hive.sent[i].key = 2 =>
                /\ hive.sent[LastPrimary].kind = "response"
                /\ hive.sent[LastPrimary].status \in {401, 403}

\* C30: every HTTP attempt uploads the image file from its first byte.
C30_UploadFromFirstByte ==
    hive # None => \A i \in SentIds : hive.sent[i].from = 0

(***************************************************************************)
(* Properties of detect_ai_generated.                                      *)
(***************************************************************************)
\* request i was followed by another attempt
Retried(i) == i < Len(sight.sent)

\* the outcomes after which a further attempt may follow
Retryable(r) ==
    \/ r.kind = "exception"
    \/ r.kind = "response" /\ r.status \in {429, 500, 502, 503, 504}

\* C28: at most max_retries + 1 requests are made and the call always ends
\* with a result of status "ok" or "error"; a further attempt follows only
\* a request exception, HTTP 429 or HTTP 500/502/503/504; status "ok" is
\* returned only for an HTTP 200 JSON response whose status is not
\* "failure".
C28_BoundedAttempts ==
    sight # None =>
        /\ Len(sight.sent) <= sight.max_retries + 1
        /\ sight.pc # "raised"
        /\ sight.pc = "done" => sight.ret.status \in {"ok", "error"}
        /\ \A i \in 1..Len(sight.sent) :
               Retried(i) => Retryable(sight.sent[i])
        /\ (sight.pc = "done" /\ sight.ret.status = "ok") =>
               LET r == sight.sent[Len(sight.sent)]
               IN r.status = 200 /\ r.body = "success"

(***************************************************************************)
(* Properties of with_retry.                                               *)
(***************************************************************************)
LogIds == 1..Len(retry.log)

CallIds == {i \in LogIds : retry.log[i].event = "call"}

SleepIds == {i \in LogIds : retry.log[i].event = "sleep"}

RetryEnded == retry.pc \in {"returned", "raised"}

\* C29: with tries >= 1, func is called at most tries times; the first
\* call that succeeds is the last and its value is returned; every sleep
\* comes after a failed call and before another call, never after the
\* last one; when all tries calls fail the error of the last call is
\* raised.
C29_RetryContract ==
    (retry # None /\ retry.tries >= 1) =>
        /\ Cardinality(CallIds) <= retry.tries
        /\ \A i \in CallIds :
               retry.log[i].kind = "returns" =>
                   /\ i = Len(retry.log)
                   /\ retry.pc = "returned"
                   /\ retry.ret = [kind |-> "value", value |-> retry.log[i].value]
        /\ \A i \in SleepIds :
               /\ i > 1
               /\ retry.log[i - 1].event = "call"
               /\ retry.log[i - 1].kind = "raises"
               /\ Cardinality({j \in CallIds : j < i}) < retry.tries
               /\ RetryEnded => i < Len(retry.log) /\ (i + 1) \in CallIds
        /\ (/\ RetryEnded
            /\ Cardinality(CallIds) = retry.tries
            /\ \A i \in CallIds : retry.log[i].kind # "returns")
               => /\ retry.pc = "raised"
                  /\ retry.ret = [kind |-> "error",
                                  value |-> retry.log[Len(retry.log)].value]

\* C29 witness: three tries, all failed, a sleep after the first and the
\* second, and the error of the third raised.
C29_Witness ==
    /\ retry # None
    /\ retry.tries = 3
    /\ retry.pc = "raised"
    /\ Cardinality(CallIds) = 3
    /\ Cardinality(SleepIds) = 2
    /\ retry.log[1].value = "HTTPError"
    /\ retry.log[Len(retry.log)].value = "Timeout"
    /\ retry.ret.value = "Timeout"

====
